---------------------------- MODULE Spec2Model ----------------------------
(***************************************************************************)
(* StravaCal: the reconciler (gcal.go, syncStravaEvents), the orchestrator *)
(* that feeds it (main.go) and the interchange-file serializer (ics.go).   *)
(* Text is a sequence of one-character strings, one element per byte, so   *)
(* that len(), slicing, Sscanf and ReplaceAll act as they do in Go.        *)
(***************************************************************************)
EXTENDS Integers, Sequences, FiniteSets, TLC

VARIABLES
    tagId,      \* correlation round trip: the int64 id handed to Sprintf
    tagText,    \* the tag "%d@strava.com" written for tagId
    tagParsed,  \* what the reconciler's scan of tagText yields
    tagPhase,   \* "in" before the round trip, "done" after
    icsName,    \* serializer: the property name handed to formatICSProperty
    icsValue,   \* the property value handed to formatICSProperty
    icsOut,     \* formatICSProperty(icsName, icsValue), ics.go
    icsOutGoogle, \* the same call on the variant that keeps real line breaks
    icsPhase,   \* "in" before the call, "done" after
    genEvents,  \* generateICS: the events handed to it
    genEnv,     \* its environment: tz database available, club id set
    genTime,    \* time.Now() during the call
    genOut,     \* what generateICS of ics.go (line breaks escaped) yields
    genOutGoogle, \* the same call on the variant that keeps real line breaks
    genPhase,   \* "in" before the call, "done" after
    convIn,     \* main's conversion loop: the fetched stravaEvents
    convClub,   \* STRAVA_CLUB_ID is set while the loop runs
    convOut,    \* convertedEvents after the loop
    convKept,   \* finalEvents: filterAndSortEvents(convertedEvents)
    convPhase,  \* "in" before the loop, "done" after it, "kept" after the
                \* filter
    clubSet,    \* environment: STRAVA_CLUB_ID is set
    now,        \* time.Now() of the latest run, in seconds
    calendar,   \* the Google calendar: its items, in list order
    nextGid,    \* the opaque id the calendar gives the next inserted item
    eventsFile, \* output/events/events.json: the cached events
    calendarFile, \* output/calendar.ics: the generateICS call whose document it holds
    faults,     \* environment: the faults that can strike a run outside the
                \* calls of syncStravaEvents
    runs,       \* the number of runs of the program so far
    apiTokens,  \* makeAPIRequest: the TokenStore it is handed
    apiSent,    \* the requests it has sent: the bearer token and the reply
    apiRefreshes, \* the outcomes of its calls of refreshTokens
    apiResult,  \* what it returns: a response status or an error
    apiPhase,   \* where the call stands
    run         \* the latest run: its mode, inputs, operations and outcome

tagVars == <<tagId, tagText, tagParsed, tagPhase>>

icsVars == <<icsName, icsValue, icsOut, icsOutGoogle, icsPhase>>

syncVars ==
    <<clubSet, now, calendar, nextGid, eventsFile, calendarFile, faults, runs, run>>

genVars == <<genEvents, genEnv, genTime, genOut, genOutGoogle, genPhase>>

convVars == <<convIn, convClub, convOut, convKept, convPhase>>

apiVars == <<apiTokens, apiSent, apiRefreshes, apiResult, apiPhase>>

vars == <<tagVars, icsVars, genVars, convVars, syncVars, apiVars>>

-----------------------------------------------------------------------------
(* Bounds of the model *)

MaxAbsId == 60       \* ids of the round trip range over -MaxAbsId..MaxAbsId
MaxFill == 150       \* a property value is a short prefix and up to MaxFill letters
MaxRuns == 2         \* runs of the program in one behaviour
MaxBatch == 2        \* events in one fetched batch
MaxEscLen == 5       \* characters of a text handed to escapeICSText alone
MaxGenEvents == 2    \* events in one slice handed to generateICS
MaxConvBatch == 3    \* records in one batch handed to the conversion loop
LongTitleLen == 80   \* letters of the long title

-----------------------------------------------------------------------------
(* Text helpers *)

DigitChars == <<"0", "1", "2", "3", "4", "5", "6", "7", "8", "9">>

IsDigit(c) == \E i \in 1..10 : DigitChars[i] = c

DigitVal(c) == (CHOOSE i \in 1..10 : DigitChars[i] = c) - 1

Tail2(s, n) == SubSeq(s, n + 1, Len(s))         \* Go's s[n:]

HasPrefix(s, p) == Len(s) >= Len(p) /\ SubSeq(s, 1, Len(p)) = p

\* fmt's %d of a non-negative number
RECURSIVE NatDigits(_)
NatDigits(n) ==
    IF n < 10 THEN <<DigitChars[n + 1]>>
    ELSE NatDigits(n \div 10) \o <<DigitChars[(n % 10) + 1]>>

\* fmt's %d verb of Sprintf for an int64
FormatInt(n) == IF n < 0 THEN <<"-">> \o NatDigits(-n) ELSE NatDigits(n)

UIDSuffix == <<"@", "s", "t", "r", "a", "v", "a", ".", "c", "o", "m">>

\* fmt.Sprintf("%d@strava.com", event.ID)
FormatUID(id) == FormatInt(id) \o UIDSuffix

-----------------------------------------------------------------------------
(* fmt.Sscanf(uid, "%d@strava.com", &stravaID) *)

\* ss.SkipSpace: blanks before a number are consumed
RECURSIVE SkipSpace(_)
SkipSpace(s) ==
    IF s # <<>> /\ Head(s) \in {" ", "\t"} THEN SkipSpace(Tail(s)) ELSE s

\* ss.scanNumber: the leading run of digits of s, as [val, n, rest]
RECURSIVE ScanDigits(_, _, _)
ScanDigits(s, acc, n) ==
    IF s # <<>> /\ IsDigit(Head(s))
    THEN ScanDigits(Tail(s), acc * 10 + DigitVal(Head(s)), n + 1)
    ELSE [val |-> acc, n |-> n, rest |-> s]

\* the value of a scanned number: an error when no digit was read
SignedValue(neg, d) ==
    IF d.n = 0 THEN [ok |-> FALSE, val |-> 0, rest |-> d.rest]
    ELSE [ok |-> TRUE, val |-> IF neg THEN 0 - d.val ELSE d.val, rest |-> d.rest]

\* ss.accept(sign), then the digits
ScanSigned(t) ==
    SignedValue(t # <<>> /\ Head(t) = "-",
                ScanDigits(IF t # <<>> /\ Head(t) \in {"+", "-"} THEN Tail(t) ELSE t,
                           0, 0))

\* a scan that accepts no sign
ScanIntUnsigned(s) == SignedValue(FALSE, ScanDigits(SkipSpace(s), 0, 0))

\* ss.scanInt for the verb %d: blanks, an optional sign, then digits
ScanInt(s) == ScanSigned(SkipSpace(s))

\* the literal text of the format after %d: n counts the operands stored, err
\* reports input that does not match the format. Input left over after the
\* format is exhausted is no error.
MatchSuffix(r) ==
    IF ~r.ok THEN [n |-> 0, err |-> TRUE, val |-> 0]
    ELSE IF HasPrefix(r.rest, UIDSuffix)
         THEN [n |-> 1, err |-> FALSE, val |-> r.val]
         ELSE [n |-> 1, err |-> TRUE, val |-> r.val]

\* Sscanf with the format "%d@strava.com"
SscanfUID(uid) == MatchSuffix(ScanInt(uid))

\* err != nil || n != 1 || stravaID == 0: not a Strava event, skip
Managed(r) ==
    IF r.err \/ r.n # 1 \/ r.val = 0
    THEN [managed |-> FALSE, id |-> r.val]
    ELSE [managed |-> TRUE, id |-> r.val]

\* The reconciler's tag parser: managed is FALSE on the two `continue`s
ParseStravaID(uid) ==
    IF uid # <<>> THEN Managed(SscanfUID(uid))
    ELSE [managed |-> FALSE, id |-> 0]

NoParse == [managed |-> FALSE, id |-> 0]

\* the serializer is not running
IcsIdle ==
    /\ icsName = <<>>
    /\ icsValue = <<>>
    /\ icsOut = <<>>
    /\ icsOutGoogle = <<>>
    /\ icsPhase = "idle"

\* generateICS is not running
NoDocument == [ok |-> TRUE, doc |-> <<>>]

GenIdle ==
    /\ genEvents = <<>>
    /\ genEnv = [tz |-> TRUE, club |-> TRUE]
    /\ genTime = 0
    /\ genOut = NoDocument
    /\ genOutGoogle = NoDocument
    /\ genPhase = "idle"

\* the conversion loop is not running
ConvIdle ==
    /\ convIn = <<>>
    /\ convClub = TRUE
    /\ convOut = <<>>
    /\ convKept = <<>>
    /\ convPhase = "idle"

\* the round trip is not running
TagIdle ==
    /\ tagId = 0
    /\ tagText = <<>>
    /\ tagParsed = NoParse
    /\ tagPhase = "idle"

\* no API request is being made
NoTokens == [access |-> "", refresh |-> ""]

NoResult == [err |-> "none", status |-> 0]

ApiIdle ==
    /\ apiTokens = NoTokens
    /\ apiSent = <<>>
    /\ apiRefreshes = <<>>
    /\ apiResult = NoResult
    /\ apiPhase = "idle"

-----------------------------------------------------------------------------
(* Time. An instant is a whole number of seconds. *)

Minute == 60
Hour == 60 * Minute
Day == 24 * Hour

ListPastDays == 7          \* syncStravaEvents: timeMin
ListFutureDays == 90       \* syncStravaEvents: timeMax
SyncHorizonDays == 60      \* main: sixtyDaysFromNow
CacheDays == 7             \* filterEvents: sevenDaysAgo

\* time.Time{}: what time.Parse returns with its error
ZeroTime == 0 - 1000 * Day

\* now.Format("Mon, 2 Jan @ 3:04 PM"): the text names the minute and neither
\* the second nor the year; instants of the model lie within one year
SyncTimeText(t) == t \div Minute

\* t.Format(time.RFC3339) in Europe/London, as calendar.EventDateTime.DateTime
FormatRFC3339(t) == [kind |-> "dateTime", sec |-> t]

\* time.Parse(time.RFC3339, x.DateTime), its error dropped: an all-day item
\* carries a Date and an empty DateTime, which parses to the zero time
ParseRFC3339(dt) == IF dt.kind = "dateTime" THEN dt.sec ELSE ZeroTime

-----------------------------------------------------------------------------
(* Events and calendar items *)

\* Event: Text stands for Organizer, Location, Description and URL together
NewEvent(id, title, start) ==
    [id |-> id, title |-> title, start |-> start, end |-> start + Hour,
     text |-> "details"]

\* getClubID under the environment env (env.club: STRAVA_CLUB_ID is set)
getClubID(env) == [ok |-> env.club, id |-> IF env.club THEN "club" ELSE ""]

\* createGoogleCalendarEvent: clubID, "unknown" when getClubID fails
ClubOrUnknown(club) == IF club.ok THEN club.id ELSE "unknown"

ClubIdText(env) == ClubOrUnknown(getClubID(env))

\* the description text "Leader: ...\n\nLocation: ...\n\n...\n\nView on Strava:
\* ...\n\nSynced from Strava Club <club> on <syncTime>"; pad tells whether
\* white space surrounds it
ComposeDescription(event, club, syncTime) ==
    [body |-> event.text, club |-> club, sync |-> syncTime, pad |-> FALSE]

\* strings.TrimSpace
TrimSpace(desc) == [desc EXCEPT !.pad = FALSE]

\* createGoogleCalendarEvent: the complete record sent on insert and update
createGoogleCalendarEvent(event, syncTime, env) ==
    [uid     |-> FormatUID(event.id),
     summary |-> event.title,
     start   |-> FormatRFC3339(event.start),
     end     |-> FormatRFC3339(event.end),
     desc    |-> ComposeDescription(event, ClubIdText(env), syncTime)]

NoRecord ==
    [uid |-> <<>>, summary |-> "", start |-> [kind |-> "date", sec |-> 0],
     end |-> [kind |-> "date", sec |-> 0],
     desc |-> [body |-> "", club |-> "", sync |-> 0, pad |-> FALSE]]

\* an item of the calendar: the record and the calendar's opaque id
ItemOf(gid, rec) ==
    [gid |-> gid, uid |-> rec.uid, summary |-> rec.summary, start |-> rec.start,
     end |-> rec.end, desc |-> rec.desc]

\* Events.List with TimeMin and TimeMax: the items that end after timeMin and
\* start before timeMax, in calendar order
ListEvents(cal, t) ==
    LET timeMin == t - ListPastDays * Day
        timeMax == t + ListFutureDays * Day
        InWindow(item) == item.end.sec > timeMin /\ item.start.sec < timeMax
    IN  SelectSeq(cal, InWindow)

\* stravaEventMap: for an id that occurs twice the later event wins
EventIds(events) == { events[i].id : i \in 1..Len(events) }

stravaEventMap(events) ==
    [id \in EventIds(events) |->
        LET last == CHOOSE i \in 1..Len(events) :
                        /\ events[i].id = id
                        /\ \A j \in (i + 1)..Len(events) : events[j].id # id
        IN  events[last]]

-----------------------------------------------------------------------------
(* syncStravaEvents *)

\* the four comparisons that set needsUpdate
NeedsUpdate(item, event, syncTime, clubID) ==
    \/ item.summary # event.title
    \/ ParseRFC3339(item.start) # event.start
    \/ ParseRFC3339(item.end) # event.end
    \/ TrimSpace(item.desc)
         # TrimSpace(ComposeDescription(event, clubID, syncTime))

Op(kind, gid, id, ok, rec) ==
    [op |-> kind, gid |-> gid, id |-> id, ok |-> ok, rec |-> rec]

RemoveItem(cal, gid) == LET Keep(item) == item.gid # gid IN SelectSeq(cal, Keep)

ReplaceItem(cal, gid, rec) ==
    [i \in 1..Len(cal) |-> IF cal[i].gid = gid THEN ItemOf(gid, rec) ELSE cal[i]]

\* Events.Delete: the call numbered st.calls + 1 of the run; it fails when the
\* environment makes that call fail
DeleteCall(st, item, id, env) ==
    LET ok == (st.calls + 1) \notin env.fails
    IN  [st EXCEPT !.calls = @ + 1,
                   !.ops = Append(@, Op("delete", item.gid, id, ok, NoRecord)),
                   !.cal = IF ok THEN RemoveItem(@, item.gid) ELSE @]

\* Events.Update: a whole-record replace of the item
UpdateCall(st, item, id, rec, env) ==
    LET ok == (st.calls + 1) \notin env.fails
    IN  [st EXCEPT !.calls = @ + 1,
                   !.ops = Append(@, Op("update", item.gid, id, ok, rec)),
                   !.cal = IF ok THEN ReplaceItem(@, item.gid, rec) ELSE @]

\* Events.Insert: the calendar refuses a record whose iCalUID it already
\* holds (409, duplicate); otherwise it fails when the environment says so
InsertCall(st, id, rec, env) ==
    LET dup == \E i \in 1..Len(st.cal) : st.cal[i].uid = rec.uid
        ok  == ~dup /\ (st.calls + 1) \notin env.fails
    IN  [st EXCEPT !.calls = @ + 1,
                   !.ops = Append(@, Op("insert", 0, id, ok, rec)),
                   !.cal = IF ok THEN Append(@, ItemOf(st.gid, rec)) ELSE @,
                   !.gid = IF ok THEN @ + 1 ELSE @]

\* an item whose id is in stravaEventMap: getClubID, the comparison, the update
CompareItem(seen, item, id, event, club, syncTime, env) ==
    IF ~club.ok THEN [seen EXCEPT !.err = "club"]
    ELSE IF NeedsUpdate(item, event, syncTime, club.id)
         THEN UpdateCall(seen, item, id,
                  createGoogleCalendarEvent(event, syncTime, env), env)
         ELSE seen

\* an item whose tag parsed to p, m being stravaEventMap
ScanParsed(st, item, p, m, syncTime, env) ==
    IF ~p.managed THEN st
    ELSE IF p.id \notin DOMAIN m THEN DeleteCall(st, item, p.id, env)
    ELSE CompareItem([st EXCEPT !.processed = @ \cup {p.id}], item, p.id,
                     m[p.id], getClubID(env), syncTime, env)

\* one pass of the loop over existingEvents.Items
ScanItem(st, item, events, syncTime, env) ==
    ScanParsed(st, item, ParseStravaID(item.uid), stravaEventMap(events),
               syncTime, env)

\* the loop over existingEvents.Items; `return err` leaves it
RECURSIVE ScanExisting(_, _, _, _, _, _)
ScanExisting(listed, i, st, events, syncTime, env) ==
    IF i > Len(listed) \/ st.err # "none" THEN st
    ELSE ScanExisting(listed, i + 1,
             ScanItem(st, listed[i], events, syncTime, env),
             events, syncTime, env)

\* a creation loop that inserts every event, seen in the calendar or not
RECURSIVE CreateAll(_, _, _, _, _)
CreateAll(events, i, st, syncTime, env) ==
    IF i > Len(events) THEN st
    ELSE CreateAll(events, i + 1,
             InsertCall(st, events[i].id,
                 createGoogleCalendarEvent(events[i], syncTime, env), env),
             syncTime, env)

\* the loop that creates the events not seen in the calendar
RECURSIVE CreateMissing(_, _, _, _, _)
CreateMissing(events, i, st, syncTime, env) ==
    IF i > Len(events) THEN st
    ELSE CreateMissing(events, i + 1,
             IF events[i].id \notin st.processed
             THEN InsertCall(st, events[i].id,
                      createGoogleCalendarEvent(events[i], syncTime, env), env)
             ELSE st,
             syncTime, env)

\* the creation loop, reached unless the scan returned an error
CreateUnlessError(events, st1, syncTime, env) ==
    IF st1.err # "none" THEN st1
    ELSE CreateMissing(events, 1, st1, syncTime, env)

\* the body of syncStravaEvents from the list call on
SyncFrom(events, st0, syncTime, env) ==
    IF ~env.listOk THEN [st0 EXCEPT !.err = "list", !.listed = <<>>]
    ELSE CreateUnlessError(events,
             ScanExisting(st0.listed, 1, st0, events, syncTime, env),
             syncTime, env)

\* what a run finds around it: club: STRAVA_CLUB_ID is set; fetchOk: the
\* fetch from Strava succeeds; listOk: Events.List succeeds; fails: the
\* numbers of the insert, update and delete calls of the run that fail
Env(club, fetchOk, listOk, fails) ==
    [club |-> club, fetchOk |-> fetchOk, listOk |-> listOk, fails |-> fails]

\* syncStravaEvents(events, srv, calendarID) at time t on calendar cal, the
\* next opaque id being gid. The result holds the error returned ("none",
\* "list", "club"), the operations issued, the snapshot listed and the
\* calendar afterwards.
syncStravaEvents(events, cal, gid, t, env) ==
    SyncFrom(events,
             [cal |-> cal, gid |-> gid, ops |-> <<>>, calls |-> 0,
              processed |-> {}, err |-> "none", listed |-> ListEvents(cal, t)],
             SyncTimeText(t), env)

-----------------------------------------------------------------------------
(* The orchestrator: main and syncGoogleCalendarOnly *)

\* a timestamp text of upcoming_occurrences: well formed, naming an instant,
\* or not
Stamp(t) == [valid |-> TRUE, sec |-> t]

\* a text that time.Parse("2006-01-02T15:04:05Z", ...) rejects
BadStamp == [valid |-> FALSE, sec |-> 0]

\* the nil *Event returned with an error
NilEvent == [nil |-> TRUE]

\* StravaEvent
RawEvent(id, title, occ) == [id |-> id, title |-> title, occ |-> occ]

\* convertStravaEvent: an error for an empty occurrence list, for a first
\* occurrence that does not parse, and for an unset club id
convertStravaEvent(se, env) ==
    IF Len(se.occ) = 0 THEN [ok |-> FALSE, event |-> NilEvent]
    ELSE IF ~se.occ[1].valid THEN [ok |-> FALSE, event |-> NilEvent]
    ELSE IF ~getClubID(env).ok THEN [ok |-> FALSE, event |-> NilEvent]
    ELSE [ok |-> TRUE, event |-> NewEvent(se.id, se.title, se.occ[1].sec)]

\* a conversion loop that gives up at the first record that fails
RECURSIVE ConvertUntilFailure(_, _, _)
ConvertUntilFailure(raw, i, env) ==
    IF i > Len(raw) \/ ~convertStravaEvent(raw[i], env).ok THEN <<>>
    ELSE <<convertStravaEvent(raw[i], env).event>>
            \o ConvertUntilFailure(raw, i + 1, env)

\* main: the conversion loop, a failing record dropped
RECURSIVE ConvertAll(_, _, _)
ConvertAll(raw, i, env) ==
    IF i > Len(raw) THEN <<>>
    ELSE LET c == convertStravaEvent(raw[i], env)
         IN  (IF c.ok THEN <<c.event>> ELSE <<>>) \o ConvertAll(raw, i + 1, env)

\* filterEvents: the events that start after now - 7 days
filterEvents(events, t) ==
    LET sevenDaysAgo == t - CacheDays * Day
        Keep(e) == e.start > sevenDaysAgo
    IN  SelectSeq(events, Keep)

\* sort.Slice with less = Start.After: a slice this short is sorted by
\* insertion, so events that start together keep their order
RECURSIVE InsertByStartDesc(_, _)
InsertByStartDesc(sorted, e) ==
    IF sorted = <<>> THEN <<e>>
    ELSE LET last == sorted[Len(sorted)]
         IN  IF e.start > last.start
             THEN Append(InsertByStartDesc(SubSeq(sorted, 1, Len(sorted) - 1), e), last)
             ELSE Append(sorted, e)

RECURSIVE SortByStartDesc(_, _)
SortByStartDesc(events, i) ==
    IF i = 0 THEN <<>>
    ELSE InsertByStartDesc(SortByStartDesc(events, i - 1), events[i])

filterAndSortEvents(events, t) ==
    LET filtered == filterEvents(events, t)
    IN  SortByStartDesc(filtered, Len(filtered))

\* main and syncGoogleCalendarOnly: the events handed to syncStravaEvents are
\* those that start after now and before now + 60 days
eventsToSync(events, t) ==
    LET sixtyDaysFromNow == t + SyncHorizonDays * Day
        Keep(e) == e.start > t /\ e.start < sixtyDaysFromNow
    IN  SelectSeq(events, Keep)

\* generateICSFromCache and generateICSOnly: the events handed to generateICS
\* are those that start after now and before now + 60 days
eventsToExportInclusive(events, t) ==
    LET sixtyDaysFromNow == t + SyncHorizonDays * Day
        Keep(e) == e.start >= t /\ e.start =< sixtyDaysFromNow
    IN  SelectSeq(events, Keep)

eventsToExport(events, t) ==
    LET sixtyDaysFromNow == t + SyncHorizonDays * Day
        Keep(e) == e.start > t /\ e.start < sixtyDaysFromNow
    IN  SelectSeq(events, Keep)

\* sort.Slice with less = Start.Before, by insertion as above
RECURSIVE InsertByStartAsc(_, _)
InsertByStartAsc(sorted, e) ==
    IF sorted = <<>> THEN <<e>>
    ELSE LET last == sorted[Len(sorted)]
         IN  IF e.start < last.start
             THEN Append(InsertByStartAsc(SubSeq(sorted, 1, Len(sorted) - 1), e), last)
             ELSE Append(sorted, e)

RECURSIVE SortByStartAsc(_, _)
SortByStartAsc(events, i) ==
    IF i = 0 THEN <<>>
    ELSE InsertByStartAsc(SortByStartAsc(events, i - 1), events[i])

\* the exit status of the process: main returns, or log.Fatalf ends it
ExitReturn == 0
ExitFatal == 1

\* the record kept of a run that called syncStravaEvents; a returned error
\* is fatal
RunRecord(mode, source, desired, r, repeat) ==
    [mode      |-> mode,
     source    |-> source,
     synced    |-> TRUE,
     desired   |-> desired,
     listed    |-> r.listed,
     ops       |-> r.ops,
     err       |-> r.err,
     allOk     |-> r.err = "none" /\ \A i \in 1..Len(r.ops) : r.ops[i].ok,
     repeat    |-> repeat,
     generated |-> FALSE,
     exported  |-> <<>>,
     exit      |-> IF r.err = "none" THEN ExitReturn ELSE ExitFatal]

\* the record of a run that ended on err before it called syncStravaEvents
\* or generateICS
Aborted(mode, source, err, exit) ==
    [mode |-> mode, source |-> source, synced |-> FALSE, desired |-> <<>>,
     listed |-> <<>>, ops |-> <<>>, err |-> err, allOk |-> FALSE,
     repeat |-> FALSE, generated |-> FALSE, exported |-> <<>>, exit |-> exit]

IdleRun == Aborted("none", <<>>, "none", ExitReturn)

\* the calendar file before any run, and after a run wrote the document
\* generateICS made of events at time t
NoFile == [written |-> FALSE, events |-> <<>>, at |-> 0, club |-> FALSE]

FileOf(events, t, club) ==
    [written |-> TRUE, events |-> events, at |-> t, club |-> club]

\* the calls syncStravaEvents issues do not depend on which of them fail
CallNumbers(events, cal, gid, t, club) ==
    1..Len(syncStravaEvents(events, cal, gid, t, Env(club, TRUE, TRUE, {})).ops)

\* this run hands syncStravaEvents what the run before handed it, and in the
\* run before every remote call succeeded
Repeats(desired) == run.mode # "none" /\ run.allOk /\ run.desired = desired

\* the instants and the fetched batches of the model
Near == 3 * Hour
Far == SyncHorizonDays * Day + 2 * Hour

Elapsed == {0, 2 * Hour}

RawPool ==
    { RawEvent(1, "Tempo Run", <<Stamp(Near)>>),
      RawEvent(1, "Hill Reps", <<Stamp(Near)>>),
      RawEvent(1, "Tempo Run", <<Stamp(Far)>>),
      RawEvent(2, "Tempo Run", <<Stamp(Near)>>),
      RawEvent(0, "Tempo Run", <<Stamp(Near)>>) }

RECURSIVE SeqsUpTo(_, _)
SeqsUpTo(S, n) ==
    IF n = 0 THEN {<<>>}
    ELSE LET shorter == SeqsUpTo(S, n - 1)
         IN  shorter \cup { Append(q, x) : q \in shorter, x \in S }

Batches == SeqsUpTo(RawPool, MaxBatch)

\* items the calendar holds that no run of this program wrote
SeedItem(uid) ==
    [gid |-> 1, uid |-> uid, summary |-> "Lunch",
     start |-> FormatRFC3339(Near), end |-> FormatRFC3339(Near + Hour),
     desc |-> [body |-> "note", club |-> "", sync |-> 0, pad |-> TRUE]]

SeedUids ==
    { <<>>,                                 \* no iCalUID
      <<"x", "1">> \o UIDSuffix,            \* text before the integer
      <<" ", "1">> \o UIDSuffix,            \* a blank before the integer
      <<"1">> \o UIDSuffix \o <<"x">>,      \* text after the suffix
      <<"0">> \o UIDSuffix }                \* the integer 0

\* an item of this program whose description the calendar has padded
PaddedItem ==
    LET rec == [uid     |-> FormatUID(1),
                summary |-> "Tempo Run",
                start   |-> FormatRFC3339(Near),
                end     |-> FormatRFC3339(Near + Hour),
                desc    |-> [body |-> "details", club |-> "club",
                             sync |-> 0, pad |-> TRUE]]
    IN  ItemOf(1, rec)

\* an item an earlier run of this program wrote for event 2
WrittenItem ==
    ItemOf(2, createGoogleCalendarEvent(NewEvent(2, "Tempo Run", Near),
                                        SyncTimeText(0), Env(TRUE, TRUE, TRUE, {})))

SeedCalendars ==
    {<<>>, <<PaddedItem>>, <<PaddedItem, WrittenItem>>}
    \cup { <<SeedItem(u)>> : u \in SeedUids }

\* the faults outside syncStravaEvents: credentials missing, the fetch
\* failing, the cache not written or not read, the calendar service not
\* authenticating, the calendar file not written
HostFaults == {"tokens", "fetch", "save", "auth", "load", "write"}

InitSync ==
    /\ clubSet = TRUE
    /\ now = 0
    /\ calendar \in SeedCalendars
    /\ nextGid = 3
    /\ eventsFile = <<>>
    /\ calendarFile = NoFile
    /\ faults = {"fetch"}
    /\ runs = 0
    /\ run = IdleRun

\* the program is not running
SyncIdle ==
    /\ clubSet = TRUE
    /\ now = 0
    /\ calendar = <<>>
    /\ nextGid = 3
    /\ eventsFile = <<>>
    /\ calendarFile = NoFile
    /\ faults = {}
    /\ runs = 0
    /\ run = IdleRun

\* fetchClubEvents: an error when the club id is unset or the request fails
fetchClubEvents(batch, env) ==
    IF ~getClubID(env).ok \/ ~env.fetchOk THEN [ok |-> FALSE, events |-> <<>>]
    ELSE [ok |-> TRUE, events |-> batch]

\* a run that ends on err and has changed nothing
Abort(mode, source, err, exit) ==
    /\ run' = Aborted(mode, source, err, exit)
    /\ UNCHANGED <<calendar, nextGid, eventsFile, calendarFile>>

\* the selected events in chronological order
Chronological(cache, t) ==
    SortByStartAsc(eventsToExport(cache, t), Len(eventsToExport(cache, t)))

\* generateICSFromCache and generateICSOnly after the selection: generate
\* the document and write the calendar file
WriteCalendar(rec, exported, t, club, fault) ==
    IF fault = "write"
    THEN /\ run' = [rec EXCEPT !.generated = TRUE, !.exported = exported,
                               !.err = "write", !.exit = ExitFatal]
         /\ UNCHANGED calendarFile
    ELSE /\ run' = [rec EXCEPT !.generated = TRUE, !.exported = exported]
         /\ calendarFile' = FileOf(exported, t, club)

\* generateICSFromCache and generateICSOnly: load the cache, select, sort,
\* generate, write
ExportStage(rec, cache, t, club, fault) ==
    IF fault = "load"
    THEN /\ run' = [rec EXCEPT !.err = "load", !.exit = ExitFatal]
         /\ UNCHANGED calendarFile
    ELSE WriteCalendar(rec, Chronological(cache, t), t, club, fault)

\* what a finished call of syncStravaEvents leaves, and in a full sync the
\* export that follows a call without error
SyncResult(mode, source, cache, desired, r, t, club, fault) ==
    /\ calendar' = r.cal
    /\ nextGid' = r.gid
    /\ IF r.err # "none" \/ mode = "gcal"
       THEN /\ run' = RunRecord(mode, source, desired, r, Repeats(desired))
            /\ UNCHANGED calendarFile
       ELSE ExportStage(RunRecord(mode, source, desired, r, Repeats(desired)),
                        cache, t, club, fault)

\* every way the list call and the calls after it can succeed or fail; a run
\* that a fault strikes after the sync is a run whose calls all succeeded
SyncEnvs(desired, t, club, fault) ==
    IF fault \in {"load", "write"} THEN {Env(club, TRUE, TRUE, {})}
    ELSE {Env(club, TRUE, FALSE, {})}
         \cup { Env(club, TRUE, TRUE, fails) :
                  fails \in SUBSET CallNumbers(desired, calendar, nextGid, t, club) }

\* the call of syncStravaEvents(desired, ...) by a run of the given mode
\* that read or fetched source and has cache in the events file
CallSync(mode, source, cache, desired, t, club, fault) ==
    \E env \in SyncEnvs(desired, t, club, fault) :
        SyncResult(mode, source, cache, desired,
                   syncStravaEvents(desired, calendar, nextGid, t, env),
                   t, club, fault)

\* main from the save on: saveEvents, getCalendarService, the selection,
\* syncStravaEvents, generateICSFromCache
ConvertAndSync(converted, finalEvents, t, club, fault) ==
    IF fault = "save" THEN Abort("full", converted, "save", ExitFatal)
    ELSE /\ eventsFile' = finalEvents
         /\ IF fault = "auth"
            THEN /\ run' = Aborted("full", converted, "auth", ExitFatal)
                 /\ UNCHANGED <<calendar, nextGid, calendarFile>>
            ELSE CallSync("full", converted, finalEvents,
                          eventsToSync(finalEvents, t), t, club, fault)

\* main after the conversion loop
Converted(converted, t, club, fault) ==
    ConvertAndSync(converted, filterAndSortEvents(converted, t), t, club, fault)

\* main, the full sync: load the credentials, fetch, convert, filter and
\* sort, save, sync, export
FullSync ==
    \E dt \in Elapsed, club \in BOOLEAN, fault \in {"none"} \cup faults :
        /\ runs < MaxRuns
        /\ runs' = runs + 1
        /\ now' = now + dt
        /\ clubSet' = club
        /\ faults' = faults
        /\ IF fault = "tokens" THEN Abort("full", <<>>, "tokens", ExitFatal)
           ELSE IF ~fetchClubEvents(<<>>, Env(club, fault # "fetch", TRUE, {})).ok
           THEN Abort("full", <<>>, "fetch", ExitReturn)
           ELSE \E batch \in Batches :
                  Converted(ConvertAll(batch, 1, Env(club, TRUE, TRUE, {})),
                            now + dt, club, fault)
        /\ UNCHANGED <<tagVars, icsVars, genVars, convVars, apiVars>>

\* syncGoogleCalendarOnly: load the cache, authenticate, select, sync
GcalOnly ==
    \E dt \in Elapsed, club \in BOOLEAN,
       fault \in {"none"} \cup (faults \cap {"load", "auth"}) :
        /\ runs < MaxRuns
        /\ runs' = runs + 1
        /\ now' = now + dt
        /\ clubSet' = club
        /\ faults' = faults
        /\ IF fault = "load" THEN Abort("gcal", <<>>, "load", ExitFatal)
           ELSE IF fault = "auth" THEN Abort("gcal", eventsFile, "auth", ExitFatal)
           ELSE /\ eventsFile' = eventsFile
                /\ CallSync("gcal", eventsFile, eventsFile,
                            eventsToSync(eventsFile, now + dt), now + dt, club, fault)
        /\ UNCHANGED <<tagVars, icsVars, genVars, convVars, apiVars>>

\* generateICSOnly: load the cache, select, sort, generate, write
IcsOnly ==
    \E dt \in Elapsed, club \in BOOLEAN,
       fault \in {"none"} \cup (faults \cap {"load", "write"}) :
        /\ runs < MaxRuns
        /\ runs' = runs + 1
        /\ now' = now + dt
        /\ clubSet' = club
        /\ faults' = faults
        /\ ExportStage(Aborted("ics", eventsFile, "none", ExitReturn),
                       eventsFile, now + dt, club, fault)
        /\ UNCHANGED <<calendar, nextGid, eventsFile>>
        /\ UNCHANGED <<tagVars, icsVars, genVars, convVars, apiVars>>

Next == FullSync \/ GcalOnly \/ IcsOnly

Init == InitSync /\ TagIdle /\ IcsIdle /\ GenIdle /\ ConvIdle /\ ApiIdle

Spec == Init /\ [][Next]_vars

-----------------------------------------------------------------------------
(* The reconciler's contract, stated over the record of the latest run *)

\* the run called syncStravaEvents and its list call succeeded
Synced == run.synced /\ run.err # "list"

OpIndexes == 1..Len(run.ops)

ListedIndexes == 1..Len(run.listed)

\* the tag of the listed item that carries the opaque id gid
ListedUid(gid) ==
    run.listed[CHOOSE k \in ListedIndexes : run.listed[k].gid = gid].uid

\* the tags that are exactly <integer>@strava.com for an integer other than 0
ExactTags == { FormatUID(n) : n \in ((0 - MaxAbsId)..MaxAbsId) \ {0} }

\* the environment of the latest run, every call succeeding
RunEnv == Env(clubSet, TRUE, TRUE, {})

\* the calls of a run without their outcomes
Calls(ops) ==
    [i \in 1..Len(ops) |-> [op |-> ops[i].op, gid |-> ops[i].gid, id |-> ops[i].id]]

\* C1: when a run hands syncStravaEvents the desired set that the run before
\* handed it, and every remote call of both runs succeeds, the second run
\* issues no insert, no update and no delete, however much time has passed
\* between the two runs.
C1_SecondRunIssuesNothing ==
    (Synced /\ run.repeat /\ run.allOk) => run.ops = <<>>

\* C2: every delete and every update of a run addresses an item whose iCalUID
\* is exactly <integer>@strava.com with an integer other than 0; an item with
\* an empty tag, a tag with text before the integer or after the suffix, or
\* the integer 0 is never the target.
C2_UnmanagedUntouched ==
    \A i \in OpIndexes :
        run.ops[i].op \in {"delete", "update"}
            => ListedUid(run.ops[i].gid) \in ExactTags

\* C3: for every listed item whose tag parses to an integer that is the id of
\* no desired event, the run issues exactly one delete addressed to that
\* item's opaque id, and no update and no insert for that integer.
C3_OrphanDeletedOnce ==
    Synced =>
        \A k \in ListedIndexes :
            LET item == run.listed[k]
                p    == ParseStravaID(item.uid)
            IN  (p.managed /\ p.id \notin EventIds(run.desired)) =>
                    /\ Cardinality({ i \in OpIndexes :
                                       /\ run.ops[i].op = "delete"
                                       /\ run.ops[i].gid = item.gid }) = 1
                    /\ \A i \in OpIndexes :
                           run.ops[i].op \in {"update", "insert"}
                               => run.ops[i].id # p.id

\* C4: the run issues an insert for a desired event if and only if no item of
\* the listed snapshot has a tag that parses to the event's id.
C4_CreateIffAbsent ==
    Synced =>
        \A j \in 1..Len(run.desired) :
            (\E i \in OpIndexes : /\ run.ops[i].op = "insert"
                                  /\ run.ops[i].id = run.desired[j].id)
            <=> ~ \E k \in ListedIndexes :
                      LET p == ParseStravaID(run.listed[k].uid)
                      IN  p.managed /\ p.id = run.desired[j].id

\* C5: for a listed item whose id matches a desired event the run issues an
\* update if and only if summary, start, end or trimmed description differ
\* from the values composed from the event; the update carries the complete
\* record of createGoogleCalendarEvent, and an item equal in all four gets no
\* operation.
C5_UpdateIffDiffers ==
    Synced =>
        \A k \in ListedIndexes :
            LET item == run.listed[k]
                p    == ParseStravaID(item.uid)
            IN  (p.managed /\ p.id \in EventIds(run.desired)) =>
                    LET event == stravaEventMap(run.desired)[p.id]
                        rec   == createGoogleCalendarEvent(event, SyncTimeText(now), RunEnv)
                        sent  == { i \in OpIndexes : run.ops[i].gid = item.gid }
                    IN  IF NeedsUpdate(item, event, SyncTimeText(now), rec.desc.club)
                        THEN /\ Cardinality(sent) = 1
                             /\ \A i \in sent : /\ run.ops[i].op = "update"
                                                /\ run.ops[i].rec = rec
                        ELSE sent = {}

\* C6: after a run whose list call and whose every insert, update and delete
\* succeeded, the ids carried by the managed items inside the listed window
\* are the desired ids, and every such item has the summary, start, end and
\* description composed from a desired event with its id (desired ids other
\* than 0, the integer the tag parser skips).
C6_Converged ==
    (/\ Synced
     /\ \A i \in OpIndexes : run.ops[i].ok
     /\ 0 \notin EventIds(run.desired)) =>
        LET after   == ListEvents(calendar, now)
            managed == { k \in 1..Len(after) : ParseStravaID(after[k].uid).managed }
        IN  /\ { ParseStravaID(after[k].uid).id : k \in managed } = EventIds(run.desired)
            /\ \A k \in managed :
                 \E j \in 1..Len(run.desired) :
                    LET rec == createGoogleCalendarEvent(run.desired[j],
                                                         SyncTimeText(now), RunEnv)
                    IN  /\ run.desired[j].id = ParseStravaID(after[k].uid).id
                        /\ after[k].summary = rec.summary
                        /\ after[k].start = rec.start
                        /\ after[k].end = rec.end
                        /\ TrimSpace(after[k].desc) = TrimSpace(rec.desc)

\* C7: whichever insert, update and delete calls fail, a run whose list call
\* succeeded returns no error and issues exactly the calls, each once and in
\* the same order, that it issues when every call succeeds.
C7_FailuresDoNotAbort ==
    [][ (run'.synced /\ run'.err # "list") =>
            /\ run'.err \notin {"list", "club"}
            /\ Calls(run'.ops)
                 = Calls(syncStravaEvents(run'.desired, calendar, nextGid, now',
                                          Env(clubSet', TRUE, TRUE, {})).ops) ]_vars

\* C8: a delete that addresses the item written for an event (tag exactly
\* <id>@strava.com) is issued only when no event with that id is in the
\* fetched, or for a gcal-only run the cached, event set of the run.
C8_DeleteOnlyWhenGone ==
    \A i \in OpIndexes :
        (/\ run.ops[i].op = "delete"
         /\ ListedUid(run.ops[i].gid) = FormatUID(run.ops[i].id))
            => run.ops[i].id \notin EventIds(run.source)

\* the items of cal with the opaque id gid whose tag parses to id
ItemsFor(cal, gid, id) ==
    { k \in 1..Len(cal) : /\ cal[k].gid = gid
                          /\ ParseStravaID(cal[k].uid).managed
                          /\ ParseStravaID(cal[k].uid).id = id }

\* the listed items of the run r whose tag parses to id
ListedFor(r, id) ==
    { k \in 1..Len(r.listed) : /\ ParseStravaID(r.listed[k].uid).managed
                               /\ ParseStravaID(r.listed[k].uid).id = id }

\* C22: in every run of a sequence of runs, an insert is issued for an id
\* only when the listed snapshot holds no managed item for it, an update only
\* for an item that is in the calendar and whose id is desired, a delete only
\* for an item that is in the calendar and whose id is not desired: no delete
\* for an id without an item.
C22_OpsFollowLifecycle ==
    [][ run'.synced =>
          \A i \in 1..Len(run'.ops) :
              LET o == run'.ops[i]
              IN  /\ o.op = "insert" => ListedFor(run', o.id) = {}
                  /\ o.op = "update" =>
                        /\ ItemsFor(calendar, o.gid, o.id) # {}
                        /\ o.id \in EventIds(run'.desired)
                  /\ o.op = "delete" =>
                        /\ ItemsFor(calendar, o.gid, o.id) # {}
                        /\ o.id \notin EventIds(run'.desired) ]_vars

\* a run that issued a delete, an update and an insert
C22_Witness ==
    /\ run.synced
    /\ \E i \in OpIndexes : run.ops[i].op = "delete" /\ run.ops[i].ok
    /\ \E i \in OpIndexes : run.ops[i].op = "update" /\ run.ops[i].ok
    /\ \E i \in OpIndexes : run.ops[i].op = "insert" /\ run.ops[i].ok

\* the identifier an operation targets: the opaque id of the listed item it
\* addresses, or for an insert the source id whose tag it writes
Target(o) ==
    IF o.op = "insert" THEN [tag |-> o.id] ELSE [item |-> o.gid]

\* C23: in a run every delete and every update is issued before the first
\* insert, no two operations target the same identifier (a listed item gets
\* at most one operation), and no source id gets both a delete and an insert.
C23_OrderedAndDisjoint ==
    run.synced =>
        /\ \A i, j \in OpIndexes :
              (i < j /\ run.ops[i].op = "insert") => run.ops[j].op = "insert"
        /\ \A i, j \in OpIndexes :
              i # j => Target(run.ops[i]) # Target(run.ops[j])
        /\ \A i, j \in OpIndexes :
              (run.ops[i].op = "delete" /\ run.ops[j].op = "insert")
                  => run.ops[i].id # run.ops[j].id

\* C24: the events handed to syncStravaEvents have pairwise different ids,
\* and a run issues at most one insert per source id.
C24_OneCreatePerId ==
    run.synced =>
        /\ \A i, j \in 1..Len(run.desired) :
              i # j => run.desired[i].id # run.desired[j].id
        /\ \A i, j \in OpIndexes :
              (/\ i # j
               /\ run.ops[i].op = "insert"
               /\ run.ops[j].op = "insert") => run.ops[i].id # run.ops[j].id

\* C27: syncStravaEvents returns an error only when the list call fails, and
\* then it has issued no insert, update or delete; a run that has issued an
\* operation returns no error, whether or not the club id is set.
C27_ErrorOnlyFromList ==
    run.synced =>
        /\ run.err \in {"list", "club"} => run.err = "list"
        /\ run.err = "list" => run.ops = <<>>
        /\ run.ops # <<>> => run.err \notin {"list", "club"}

-----------------------------------------------------------------------------
(* The runs of the program under every host fault: exit status and the
   files a run leaves *)

InitRun ==
    /\ clubSet = TRUE
    /\ now = 0
    /\ calendar \in {<<>>, <<PaddedItem>>}
    /\ nextGid = 3
    /\ eventsFile = <<>>
    /\ calendarFile = NoFile
    /\ faults = HostFaults
    /\ runs = 0
    /\ run = IdleRun

InitRunOnly == InitRun /\ TagIdle /\ IcsIdle /\ GenIdle /\ ConvIdle /\ ApiIdle

SpecRun == InitRunOnly /\ [][Next]_vars

\* the errors that end a full sync run
BatchFatal == {"tokens", "fetch", "save", "load", "auth", "list"}

\* C18: a full sync run that ends on a batch-fatal error (credentials not
\* loaded, the fetch failing, the cache not written or not read, the calendar
\* service not authenticating, the list call failing) ends the process with
\* a non-zero exit status.
C18_FatalExitsNonZero ==
    (run.mode = "full" /\ run.err \in BatchFatal) => run.exit # ExitReturn

\* C19: a full sync run that ends on a failing fetch, a failing calendar
\* authentication or a failing list call leaves the event cache file and the
\* calendar file as they were before the run.
C19_AbortKeepsFiles ==
    [][ (run'.mode = "full" /\ run'.err \in {"fetch", "auth", "list"}) =>
            /\ eventsFile' = eventsFile
            /\ calendarFile' = calendarFile ]_vars

\* the start of e lies strictly between t and t + 60 days
InWindow(e, t) == t < e.start /\ e.start < t + 60 * Day

Elements(events) == { events[i] : i \in 1..Len(events) }

-----------------------------------------------------------------------------
(* Scheduled runs of the reconciler on an unchanged cache *)

\* an item a run wrote 9 days ago for an event that started 8 days ago
StaleItem ==
    ItemOf(1, createGoogleCalendarEvent(NewEvent(3, "Tempo Run", 0 - 8 * Day),
                                        SyncTimeText(0 - 9 * Day),
                                        Env(TRUE, TRUE, TRUE, {})))

LiveCalendars == {<<>>, <<PaddedItem>>, <<PaddedItem, WrittenItem>>, <<StaleItem>>}

LiveCaches ==
    { <<>>,
      <<NewEvent(1, "Tempo Run", Near)>>,
      <<NewEvent(1, "Tempo Run", Near), NewEvent(2, "Hill Reps", Near)>> }

InitLive ==
    /\ clubSet \in BOOLEAN
    /\ now = 0
    /\ calendar \in LiveCalendars
    /\ nextGid = 3
    /\ eventsFile \in LiveCaches
    /\ calendarFile = NoFile
    /\ faults = {}
    /\ runs = 0
    /\ run = IdleRun

\* syncGoogleCalendarOnly run again on the same cache, at the same instant,
\* in the same environment; any of its calls may fail
Resync ==
    /\ CallSync("gcal", eventsFile, eventsFile, eventsToSync(eventsFile, now),
                now, clubSet, "none")
    /\ UNCHANGED <<clubSet, now, eventsFile, faults, runs>>
    /\ UNCHANGED <<tagVars, icsVars, genVars, convVars, apiVars>>

\* the same run when the list call and every call after it succeed
CleanResync ==
    /\ \E desired \in {eventsToSync(eventsFile, now)} :
         \E r \in {syncStravaEvents(desired, calendar, nextGid, now,
                                    Env(clubSet, TRUE, TRUE, {}))} :
             SyncResult("gcal", eventsFile, eventsFile, desired, r,
                        now, clubSet, "none")
    /\ UNCHANGED <<clubSet, now, eventsFile, faults, runs>>
    /\ UNCHANGED <<tagVars, icsVars, genVars, convVars, apiVars>>

NextLive == Resync

InitLiveOnly == InitLive /\ TagIdle /\ IcsIdle /\ GenIdle /\ ConvIdle /\ ApiIdle

\* the runs go on for ever, and a run whose calls all succeed comes again
\* and again
SpecLive == InitLiveOnly /\ [][NextLive]_vars /\ WF_vars(CleanResync)

\* no item of the calendar carries the id of an event that is not desired,
\* and every desired event has its item
Converged ==
    LET desired == EventIds(eventsToSync(eventsFile, now))
    IN  /\ \A k \in 1..Len(calendar) :
             ParseStravaID(calendar[k].uid).managed
                 => ParseStravaID(calendar[k].uid).id \in desired
        /\ \A id \in desired :
             \E k \in 1..Len(calendar) : calendar[k].uid = FormatUID(id)

\* C30: under repeated runs with a fixed desired set, a run whose calls all
\* succeed recurring, the calendar eventually holds no managed item for an
\* id that is not desired and an item for every desired id.
C30_EventuallyConverged == <>Converged

-----------------------------------------------------------------------------
(* main's conversion loop on a bounded batch *)

\* the instant 7 days before time 0, and the second before it
WeekAgo == 0 - CacheDays * Day
OverAWeekAgo == WeekAgo - 1

\* fetched records: a good one, one whose later occurrence is malformed, one
\* without occurrences, one whose first occurrence is malformed, a good one,
\* one that started 7 days ago to the second, one that started a second
\* earlier
ConvPool ==
    { RawEvent(1, "Tempo Run", <<Stamp(Near)>>),
      RawEvent(2, "Hill Reps", <<Stamp(Near), BadStamp>>),
      RawEvent(3, "Long Run", <<>>),
      RawEvent(4, "Track", <<BadStamp, Stamp(Far)>>),
      RawEvent(5, "Relay", <<Stamp(Far), Stamp(Near)>>),
      RawEvent(6, "Recovery", <<Stamp(WeekAgo)>>),
      RawEvent(7, "Fartlek", <<Stamp(OverAWeekAgo)>>) }

InitConv ==
    /\ convIn \in UNION { [1..n -> ConvPool] : n \in 0..MaxConvBatch }
    /\ convClub \in BOOLEAN
    /\ convOut = <<>>
    /\ convKept = <<>>
    /\ convPhase = "in"

ConvertBatch ==
    /\ convPhase = "in"
    /\ convOut' = ConvertAll(convIn, 1, Env(convClub, TRUE, TRUE, {}))
    /\ convPhase' = "done"
    /\ UNCHANGED <<convIn, convClub, convKept, tagVars, icsVars, genVars, syncVars, apiVars>>

\* main: finalEvents := filterAndSortEvents(convertedEvents)
FilterConverted ==
    /\ convPhase = "done"
    /\ convKept' = filterAndSortEvents(convOut, now)
    /\ convPhase' = "kept"
    /\ UNCHANGED <<convIn, convClub, convOut, tagVars, icsVars, genVars, syncVars, apiVars>>

NextConv == ConvertBatch \/ FilterConverted

InitConvOnly == InitConv /\ TagIdle /\ IcsIdle /\ GenIdle /\ SyncIdle /\ ApiIdle

SpecConv == InitConvOnly /\ [][NextConv]_vars

\* the record has a first occurrence and that occurrence parses
FirstOccurrenceParses(se) == Len(se.occ) > 0 /\ se.occ[1].valid

\* the records of the batch that convert, in the order of the batch
Convertible(batch, club) ==
    LET Good(se) == FirstOccurrenceParses(se) /\ club
    IN  SelectSeq(batch, Good)

\* C17: convertStravaEvent returns an error and no Event for a record with no
\* occurrence and for one whose first occurrence does not parse, whatever its
\* later occurrences; the loop drops each failing record and keeps every
\* other record, converted from its first occurrence, in the batch's order.
C17_FailingRecordsDropped ==
    convPhase = "done" =>
        /\ \A i \in 1..Len(convIn) :
             ~FirstOccurrenceParses(convIn[i]) =>
                 convertStravaEvent(convIn[i], Env(convClub, TRUE, TRUE, {}))
                     = [ok |-> FALSE, event |-> NilEvent]
        /\ LET kept == Convertible(convIn, convClub)
           IN  convOut = [j \in 1..Len(kept) |->
                            NewEvent(kept[j].id, kept[j].title, kept[j].occ[1].sec)]

C17_Witness ==
    /\ convPhase = "done"
    /\ convClub
    /\ Len(convIn) = 3
    /\ convIn[1].occ = <<BadStamp, Stamp(Far)>>
    /\ convIn[2].occ = <<>>
    /\ convIn[3].occ = <<Stamp(Far), Stamp(Near)>>
    /\ convOut = <<NewEvent(5, "Relay", Far)>>

\* the events of the list that start on or after t - 7 days
Retained(events, t) ==
    LET Keep(e) == e.start >= t - 7 * Day
    IN  SelectSeq(events, Keep)

\* C21: filterAndSortEvents returns exactly the events whose start is on or
\* after now minus 7 days, an event that starts 7 days ago to the second
\* included.
C21_KeepsFromSevenDaysAgo ==
    convPhase = "kept" =>
        /\ Elements(convKept) = Elements(Retained(convOut, now))
        /\ Len(convKept) = Len(Retained(convOut, now))

-----------------------------------------------------------------------------
(* The serializer's text functions *)

CRLF == <<"\r", "\n">>

\* strings.ReplaceAll: every non-overlapping occurrence of old, from the left
\* strings.Index: the first position at which old occurs in s, 0 when none
Index(s, old) ==
    LET hits == { i \in 1..(Len(s) - Len(old) + 1) :
                    SubSeq(s, i, i + Len(old) - 1) = old }
    IN  IF hits = {} THEN 0
        ELSE CHOOSE i \in hits : \A j \in hits : i <= j

RECURSIVE ReplaceAll(_, _, _)
ReplaceAll(s, old, new) ==
    LET i == Index(s, old)
    IN  IF i = 0 THEN s
        ELSE SubSeq(s, 1, i - 1) \o new
                \o ReplaceAll(Tail2(s, i + Len(old) - 1), old, new)

\* regexp `<[^>]*>` replaced by "": from each "<" through the next ">"
RECURSIVE StripTags(_)
StripTags(s) ==
    LET opens == { i \in 1..Len(s) :
                     s[i] = "<" /\ \E j \in (i + 1)..Len(s) : s[j] = ">" }
    IN  IF opens = {} THEN s
        ELSE LET i == CHOOSE k \in opens : \A m \in opens : k <= m
                 j == CHOOSE k \in (i + 1)..Len(s) :
                          s[k] = ">" /\ \A m \in (i + 1)..(k - 1) : s[m] # ">"
             IN  SubSeq(s, 1, i - 1) \o StripTags(Tail2(s, j))

EntNbsp == <<"&", "n", "b", "s", "p", ";">>
EntAmp  == <<"&", "a", "m", "p", ";">>
EntLt   == <<"&", "l", "t", ";">>
EntGt   == <<"&", "g", "t", ";">>
EntQuot == <<"&", "q", "u", "o", "t", ";">>
EntNum  == <<"&", "#", "3", "9", ";">>
EntApos == <<"&", "a", "p", "o", "s", ";">>

stripHTML(input) ==
    LET t0 == StripTags(input)
        t1 == ReplaceAll(t0, EntNbsp, <<" ">>)
        t2 == ReplaceAll(t1, EntAmp, <<"&">>)
        t3 == ReplaceAll(t2, EntLt, <<"<">>)
        t4 == ReplaceAll(t3, EntGt, <<">">>)
        t5 == ReplaceAll(t4, EntQuot, <<"\"">>)
        t6 == ReplaceAll(t5, EntNum, <<"'">>)
    IN  ReplaceAll(t6, EntApos, <<"'">>)

\* the substitutions in another order: the backslash escaped last
EscapeBackslashLast(s) ==
    ReplaceAll(ReplaceAll(ReplaceAll(s, <<";">>, <<"\\", ";">>),
                          <<",">>, <<"\\", ",">>),
               <<"\\">>, <<"\\", "\\">>)

\* ics.go: line breaks become the two characters \n
escapeICSText(s) ==
    LET s1 == ReplaceAll(s, <<"\\">>, <<"\\", "\\">>)
        s2 == ReplaceAll(s1, <<";">>, <<"\\", ";">>)
        s3 == ReplaceAll(s2, <<",">>, <<"\\", ",">>)
        s4 == ReplaceAll(s3, CRLF, <<"\\", "n">>)
        s5 == ReplaceAll(s4, <<"\n">>, <<"\\", "n">>)
    IN  ReplaceAll(s5, <<"\r">>, <<"\\", "n">>)

\* the variant that keeps real line breaks
escapeICSTextGoogle(s) ==
    LET s1 == ReplaceAll(s, <<"\\">>, <<"\\", "\\">>)
        s2 == ReplaceAll(s1, <<";">>, <<"\\", ";">>)
    IN  ReplaceAll(s2, <<",">>, <<"\\", ",">>)

maxLen == 75

\* the folding loop shared by both variants: while len(text) > maxLen, write
\* text[:maxLen] and the continuation CRLF + space, and go on with text[maxLen:]
RECURSIVE FoldLoop(_)
FoldLoop(text) ==
    IF Len(text) > maxLen
    THEN SubSeq(text, 1, maxLen) \o CRLF \o <<" ">> \o FoldLoop(Tail2(text, maxLen))
    ELSE text

foldLine(text) == IF Len(text) <= maxLen THEN text ELSE FoldLoop(text)

\* strings.Split
RECURSIVE Split(_, _)
Split(s, sep) ==
    LET i == Index(s, sep)
    IN  IF i = 0 THEN <<s>>
        ELSE <<SubSeq(s, 1, i - 1)>> \o Split(Tail2(s, i + Len(sep) - 1), sep)

RECURSIVE JoinFolded(_, _)
JoinFolded(lines, i) ==
    IF i > Len(lines) THEN <<>>
    ELSE (IF i > 1 THEN CRLF ELSE <<>>) \o FoldLoop(lines[i]) \o JoinFolded(lines, i + 1)

\* the variant that folds each segment between real line breaks on its own
foldLineGoogle(text) == JoinFolded(Split(text, <<"\n">>), 1)

formatICSProperty(property, value) ==
    foldLine(property \o <<":">> \o escapeICSText(stripHTML(value))) \o CRLF

formatICSPropertyGoogle(property, value) ==
    foldLineGoogle(property \o <<":">> \o escapeICSTextGoogle(value)) \o CRLF

-----------------------------------------------------------------------------
(* generateICS: the literal texts it writes *)

\* the header and the timezone definition, one text per WriteString, each
\* written with "\r\n" after it
PreambleLines ==
    <<
      <<"B", "E", "G", "I", "N", ":", "V", "C", "A", "L", "E", "N", "D", "A",
        "R">>,
      <<"V", "E", "R", "S", "I", "O", "N", ":", "2", ".", "0">>,
      <<"P", "R", "O", "D", "I", "D", ":", "-", "/", "/", "S", "t", "r", "a",
        "v", "a", "C", "a", "l", "/", "/", "S", "t", "r", "a", "v", "a", " ",
        "C", "l", "u", "b", " ", "E", "v", "e", "n", "t", "s", "/", "/", "E",
        "N">>,
      <<"C", "A", "L", "S", "C", "A", "L", "E", ":", "G", "R", "E", "G", "O",
        "R", "I", "A", "N">>,
      <<"M", "E", "T", "H", "O", "D", ":", "P", "U", "B", "L", "I", "S", "H">>,
      <<"X", "-", "W", "R", "-", "C", "A", "L", "N", "A", "M", "E", ":", "M",
        "a", "l", "v", "e", "r", "n", " ", "B", "u", "z", "z", "a", "r", "d",
        "s", " ", "R", "u", "n", "n", "i", "n", "g", " ", "C", "l", "u", "b">>,
      <<"X", "-", "W", "R", "-", "C", "A", "L", "D", "E", "S", "C", ":", "C",
        "l", "u", "b", " ", "r", "u", "n", "n", "i", "n", "g", " ", "e", "v",
        "e", "n", "t", "s", " ", "f", "r", "o", "m", " ", "S", "t", "r", "a",
        "v", "a">>,
      <<"B", "E", "G", "I", "N", ":", "V", "T", "I", "M", "E", "Z", "O", "N",
        "E">>,
      <<"T", "Z", "I", "D", ":", "E", "u", "r", "o", "p", "e", "/", "L", "o",
        "n", "d", "o", "n">>,
      <<"B", "E", "G", "I", "N", ":", "D", "A", "Y", "L", "I", "G", "H", "T">>,
      <<"D", "T", "S", "T", "A", "R", "T", ":", "2", "0", "0", "7", "0", "3",
        "2", "5", "T", "0", "1", "0", "0", "0", "0">>,
      <<"R", "R", "U", "L", "E", ":", "F", "R", "E", "Q", "=", "Y", "E", "A",
        "R", "L", "Y", ";", "B", "Y", "M", "O", "N", "T", "H", "=", "3", ";",
        "B", "Y", "D", "A", "Y", "=", "-", "1", "S", "U">>,
      <<"T", "Z", "O", "F", "F", "S", "E", "T", "F", "R", "O", "M", ":", "+",
        "0", "0", "0", "0">>,
      <<"T", "Z", "O", "F", "F", "S", "E", "T", "T", "O", ":", "+", "0", "1",
        "0", "0">>,
      <<"T", "Z", "N", "A", "M", "E", ":", "B", "S", "T">>,
      <<"E", "N", "D", ":", "D", "A", "Y", "L", "I", "G", "H", "T">>,
      <<"B", "E", "G", "I", "N", ":", "S", "T", "A", "N", "D", "A", "R", "D">>,
      <<"D", "T", "S", "T", "A", "R", "T", ":", "2", "0", "0", "7", "1", "0",
        "2", "8", "T", "0", "2", "0", "0", "0", "0">>,
      <<"R", "R", "U", "L", "E", ":", "F", "R", "E", "Q", "=", "Y", "E", "A",
        "R", "L", "Y", ";", "B", "Y", "M", "O", "N", "T", "H", "=", "1", "0",
        ";", "B", "Y", "D", "A", "Y", "=", "-", "1", "S", "U">>,
      <<"T", "Z", "O", "F", "F", "S", "E", "T", "F", "R", "O", "M", ":", "+",
        "0", "1", "0", "0">>,
      <<"T", "Z", "O", "F", "F", "S", "E", "T", "T", "O", ":", "+", "0", "0",
        "0", "0">>,
      <<"T", "Z", "N", "A", "M", "E", ":", "G", "M", "T">>,
      <<"E", "N", "D", ":", "S", "T", "A", "N", "D", "A", "R", "D">>,
      <<"E", "N", "D", ":", "V", "T", "I", "M", "E", "Z", "O", "N", "E">>
    >>

BeginVevent ==
    <<"B", "E", "G", "I", "N", ":", "V", "E", "V", "E", "N", "T">>

EndVevent ==
    <<"E", "N", "D", ":", "V", "E", "V", "E", "N", "T">>

EndVcalendar ==
    <<"E", "N", "D", ":", "V", "C", "A", "L", "E", "N", "D", "A", "R">>

UidName ==
    <<"U", "I", "D", ":">>

DtstartName ==
    <<"D", "T", "S", "T", "A", "R", "T", ";", "T", "Z", "I", "D", "=", "E",
      "u", "r", "o", "p", "e", "/", "L", "o", "n", "d", "o", "n", ":">>

DtendName ==
    <<"D", "T", "E", "N", "D", ";", "T", "Z", "I", "D", "=", "E", "u", "r",
      "o", "p", "e", "/", "L", "o", "n", "d", "o", "n", ":">>

DtstampName ==
    <<"D", "T", "S", "T", "A", "M", "P", ":">>

SummaryName ==
    <<"S", "U", "M", "M", "A", "R", "Y", ":">>

LocationName ==
    <<"L", "O", "C", "A", "T", "I", "O", "N", ":">>

UrlName ==
    <<"U", "R", "L", ":">>

CategoriesLine ==
    <<"C", "A", "T", "E", "G", "O", "R", "I", "E", "S", ":", "R", "u", "n",
      "n", "i", "n", "g", ",", "C", "l", "u", "b", " ", "E", "v", "e", "n",
      "t">>

LeaderText ==
    <<"L", "e", "a", "d", "e", "r", ":", " ">>

LocationText ==
    <<"\n", "\n", "L", "o", "c", "a", "t", "i", "o", "n", ":", " ">>

ParagraphBreak ==
    <<"\n", "\n">>

ViewText ==
    <<"\n", "\n", "V", "i", "e", "w", " ", "o", "n", " ", "S", "t", "r", "a",
      "v", "a", ":", " ">>

SyncedText ==
    <<"\n", "\n", "S", "y", "n", "c", "e", "d", " ", "f", "r", "o", "m", " ",
      "S", "t", "r", "a", "v", "a", " ", "C", "l", "u", "b", " ">>

OnText ==
    <<" ", "o", "n", " ">>

HtmlLeader ==
    <<"<", "p", ">", "<", "s", "t", "r", "o", "n", "g", ">", "L", "e", "a",
      "d", "e", "r", ":", "<", "/", "s", "t", "r", "o", "n", "g", ">", " ">>

HtmlLocation ==
    <<"<", "/", "p", ">", "<", "p", ">", "<", "s", "t", "r", "o", "n", "g",
      ">", "L", "o", "c", "a", "t", "i", "o", "n", ":", "<", "/", "s", "t",
      "r", "o", "n", "g", ">", " ">>

HtmlBody ==
    <<"<", "/", "p", ">", "<", "p", ">">>

HtmlView ==
    <<"<", "/", "p", ">", "<", "p", ">", "<", "s", "t", "r", "o", "n", "g",
      ">", "V", "i", "e", "w", " ", "o", "n", " ", "S", "t", "r", "a", "v",
      "a", ":", "<", "/", "s", "t", "r", "o", "n", "g", ">", " ", "<", "a",
      " ", "h", "r", "e", "f", "=", "\"">>

HtmlHrefEnd ==
    <<"\"", ">">>

HtmlSynced ==
    <<"<", "/", "a", ">", "<", "/", "p", ">", "<", "p", ">", "<", "s", "t",
      "r", "o", "n", "g", ">", "S", "y", "n", "c", "e", "d", " ", "f", "r",
      "o", "m", " ", "S", "t", "r", "a", "v", "a", " ", "C", "l", "u", "b",
      " ">>

HtmlOn ==
    <<" ", "o", "n", ":", "<", "/", "s", "t", "r", "o", "n", "g", ">", " ">>

HtmlEnd ==
    <<"<", "/", "p", ">">>

HtmlBreak ==
    <<"<", "b", "r", ">">>

UnknownClub ==
    <<"u", "n", "k", "n", "o", "w", "n">>

ClubIdChars ==
    <<"1", "2", "3", "4", "5">>

-----------------------------------------------------------------------------
(* generateICS. Instants are seconds after 2025-06-01T00:00:00Z and lie in *)
(* June 2025, when Europe/London is one hour ahead of UTC.                  *)

PropDescription == <<"D", "E", "S", "C", "R", "I", "P", "T", "I", "O", "N">>

PropAltDesc ==
    <<"X", "-", "A", "L", "T", "-", "D", "E", "S", "C", ";", "F", "M", "T",
      "T", "Y", "P", "E", "=", "t", "e", "x", "t", "/", "h", "t", "m", "l">>

\* two decimal digits
Pad2(n) == <<DigitChars[(n \div 10) + 1], DigitChars[(n % 10) + 1]>>

\* Format("20060102T150405") of the instant s seconds after the start of
\* 1 June 2025 on the clock it is read on
ClockStamp(s) ==
    <<"2", "0", "2", "5", "0", "6">> \o Pad2((s \div Day) + 1) \o <<"T">>
        \o Pad2((s % Day) \div Hour) \o Pad2((s % Hour) \div Minute)
        \o Pad2(s % Minute)

\* t.In(london).Format("20060102T150405")
LocalStamp(t) == ClockStamp(t + Hour)

\* time.Now().UTC().Format("20060102T150405Z")
UTCStamp(t) == ClockStamp(t) \o <<"Z">>

\* 1 June 2025 is a Sunday
WeekdayNames ==
    << <<"S", "u", "n">>, <<"M", "o", "n">>, <<"T", "u", "e">>,
       <<"W", "e", "d">>, <<"T", "h", "u">>, <<"F", "r", "i">>,
       <<"S", "a", "t">> >>

\* the hour of the 12-hour clock
Hour12(h) == IF h % 12 = 0 THEN 12 ELSE h % 12

\* Format("Mon, 2 Jan @ 3:04 PM") of the local second s
SyncTimeOnClock(s) ==
    WeekdayNames[((s \div Day) % 7) + 1] \o <<",", " ">>
        \o FormatInt((s \div Day) + 1) \o <<" ", "J", "u", "n", " ", "@", " ">>
        \o FormatInt(Hour12((s % Day) \div Hour)) \o <<":">>
        \o Pad2((s % Hour) \div Minute)
        \o (IF (s % Day) \div Hour < 12 THEN <<" ", "A", "M">> ELSE <<" ", "P", "M">>)

\* now.In(london).Format("Mon, 2 Jan @ 3:04 PM")
SyncTimeChars(t) == SyncTimeOnClock(t + Hour)

\* Event, with its text fields as texts
TextEvent(id, title, start, organizer, location, description, url) ==
    [id |-> id, title |-> title, start |-> start, end |-> start + Hour,
     organizer |-> organizer, location |-> location,
     description |-> description, url |-> url]

\* a []Event: nil or a slice of items; range over nil runs zero times
Slice(isNil, items) == [isNil |-> isNil, items |-> items]

\* clubID of generateICS: "unknown" when getClubID fails
ClubChars(env) == IF env.club THEN ClubIdChars ELSE UnknownClub

\* the two variants of ics.go: "rfc" escapes line breaks and strips markup
\* (part_001), "google" keeps real line breaks (part_000)
EscapeBy(v, s) == IF v = "rfc" THEN escapeICSText(s) ELSE escapeICSTextGoogle(s)

FormatBy(v, property, value) ==
    IF v = "rfc" THEN formatICSProperty(property, value)
    ELSE formatICSPropertyGoogle(property, value)

\* description of generateICS
PlainDescription(e, club, syncTime) ==
    LeaderText \o e.organizer \o LocationText \o e.location \o ParagraphBreak
        \o e.description \o ViewText \o e.url \o SyncedText \o club
        \o OnText \o syncTime

\* htmlDescription of generateICS
HtmlDescription(e, club, syncTime) ==
    HtmlLeader \o ReplaceAll(e.organizer, <<"\n">>, HtmlBreak)
        \o HtmlLocation \o ReplaceAll(e.location, <<"\n">>, HtmlBreak)
        \o HtmlBody \o ReplaceAll(e.description, <<"\n">>, HtmlBreak)
        \o HtmlView \o e.url \o HtmlHrefEnd \o e.url
        \o HtmlSynced \o club \o HtmlOn \o syncTime \o HtmlEnd

\* the optional LOCATION line
LocationLine(v, e) ==
    IF e.location # <<>> THEN LocationName \o EscapeBy(v, e.location) \o CRLF
    ELSE <<>>

\* one pass of the loop over events
EventRecord(v, e, t, env) ==
    BeginVevent \o CRLF
        \o UidName \o FormatUID(e.id) \o CRLF
        \o DtstartName \o LocalStamp(e.start) \o CRLF
        \o DtendName \o LocalStamp(e.end) \o CRLF
        \o DtstampName \o UTCStamp(t) \o CRLF
        \o SummaryName \o EscapeBy(v, e.title) \o CRLF
        \o FormatBy(v, PropDescription,
                    PlainDescription(e, ClubChars(env), SyncTimeChars(t)))
        \o FormatBy(v, PropAltDesc,
                    HtmlDescription(e, ClubChars(env), SyncTimeChars(t)))
        \o LocationLine(v, e)
        \o UrlName \o e.url \o CRLF
        \o CategoriesLine \o CRLF
        \o EndVevent \o CRLF

RECURSIVE EventRecords(_, _, _, _, _)
EventRecords(v, items, i, t, env) ==
    IF i > Len(items) THEN <<>>
    ELSE EventRecord(v, items[i], t, env) \o EventRecords(v, items, i + 1, t, env)

RECURSIVE WriteLines(_, _)
WriteLines(lines, i) ==
    IF i > Len(lines) THEN <<>>
    ELSE lines[i] \o CRLF \o WriteLines(lines, i + 1)

Preamble == WriteLines(PreambleLines, 1)

\* the footer: "END:VCALENDAR\r\n" and then "\n"
Trailer == EndVcalendar \o CRLF \o <<"\n">>

\* generateICS of variant v. time.LoadLocation's error is dropped inside the
\* loop, so with no timezone database the first event's Start.In(nil) panics;
\* ok tells whether the call returned
GenerateDoc(v, events, t, env) ==
    IF events.items # <<>> /\ ~env.tz THEN [ok |-> FALSE, doc |-> <<>>]
    ELSE [ok  |-> TRUE,
          doc |-> Preamble \o EventRecords(v, events.items, 1, t, env) \o Trailer]

generateICS(events, t, env) == GenerateDoc("rfc", events, t, env)

generateICSGoogle(events, t, env) == GenerateDoc("google", events, t, env)

-----------------------------------------------------------------------------
(* One call of formatICSProperty on a bounded input *)

PropNames == {PropDescription, PropAltDesc}

Fill(n) == [i \in 1..n |-> "a"]

ValuePrefixes ==
    { <<>>, <<",">>, <<";", "\\">>, <<"\n", " ">>, <<"a", "\r", "\n">>,
      <<"<", "b", ">">>, <<"&", "a", "m", "p", ";", "l", "t", ";">> }

\* the text between consecutive CRLFs
PhysicalLines(doc) == Split(doc, CRLF)

LinesWithin(doc, n) ==
    LET ls == PhysicalLines(doc)
    IN  \A i \in 1..Len(ls) : Len(ls[i]) <= n

InitIcs ==
    /\ icsName \in PropNames
    /\ icsValue \in { p \o Fill(n) : p \in ValuePrefixes, n \in 0..MaxFill }
    /\ icsOut = <<>>
    /\ icsOutGoogle = <<>>
    /\ icsPhase = "in"

FormatProperty ==
    /\ icsPhase = "in"
    /\ icsOut' = formatICSProperty(icsName, icsValue)
    /\ icsOutGoogle' = formatICSPropertyGoogle(icsName, icsValue)
    /\ icsPhase' = "done"
    /\ UNCHANGED <<icsName, icsValue, tagVars, genVars, convVars, syncVars, apiVars>>

NextIcs == FormatProperty

InitIcsOnly == InitIcs /\ TagIdle /\ GenIdle /\ ConvIdle /\ SyncIdle /\ ApiIdle

SpecIcs == InitIcsOnly /\ [][NextIcs]_vars

\* C10: every physical line of formatICSProperty(name, value), the leading
\* continuation space counted, is at most 75 units long (both variants).
C10_LinesAtMost75 ==
    icsPhase = "done" =>
        /\ LinesWithin(icsOut, maxLen)
        /\ LinesWithin(icsOutGoogle, maxLen)

\* un-folding: every continuation break, CRLF and one space, removed
Unfold(text) == ReplaceAll(text, CRLF \o <<" ">>, <<>>)

\* the folded text of a property: the output without its closing CRLF
Folded(out) == SubSeq(out, 1, Len(out) - Len(CRLF))

\* C11: removing every continuation break from what foldLine returned gives
\* back the logical line name + ":" + escaped value that was folded, in both
\* variants, also for a value that holds a line break followed by a space.
C11_UnfoldRestoresLine ==
    icsPhase = "done" =>
        /\ Unfold(Folded(icsOut))
             = icsName \o <<":">> \o escapeICSText(stripHTML(icsValue))
        /\ Unfold(Folded(icsOutGoogle))
             = icsName \o <<":">> \o escapeICSTextGoogle(icsValue)

-----------------------------------------------------------------------------
(* One call of escapeICSText on a text of backslashes, commas and semicolons *)

EscChars == {"\\", ",", ";"}

InitEsc ==
    /\ icsName = <<>>
    /\ icsValue \in UNION { [1..n -> EscChars] : n \in 0..MaxEscLen }
    /\ icsOut = <<>>
    /\ icsOutGoogle = <<>>
    /\ icsPhase = "in"

EscapeText ==
    /\ icsPhase = "in"
    /\ icsOut' = escapeICSText(icsValue)
    /\ icsOutGoogle' = escapeICSTextGoogle(icsValue)
    /\ icsPhase' = "escaped"
    /\ UNCHANGED <<icsName, icsValue, tagVars, genVars, convVars, syncVars, apiVars>>

NextEsc == EscapeText

InitEscOnly == InitEsc /\ TagIdle /\ GenIdle /\ ConvIdle /\ SyncIdle /\ ApiIdle

SpecEsc == InitEscOnly /\ [][NextEsc]_vars

\* un-escaping: every pair of a backslash and a character becomes the character
RECURSIVE Unescape(_)
Unescape(t) ==
    LET i == Index(t, <<"\\">>)
    IN  IF i = 0 \/ i = Len(t) THEN t
        ELSE SubSeq(t, 1, i - 1) \o <<t[i + 1]>> \o Unescape(Tail2(t, i + 1))

\* C12: for a text of backslashes, commas and semicolons, un-escaping what
\* escapeICSText returned gives the text back, and the escaped text is one
\* pair per character: no backslash written for a semicolon or a comma is
\* escaped again (both variants).
C12_EscapeRoundTrip ==
    icsPhase = "escaped" =>
        /\ Unescape(icsOut) = icsValue
        /\ Len(icsOut) = 2 * Len(icsValue)
        /\ Unescape(icsOutGoogle) = icsValue
        /\ Len(icsOutGoogle) = 2 * Len(icsValue)

C12_Witness ==
    /\ icsPhase = "escaped"
    /\ icsValue = <<",", "\\", ";">>
    /\ icsOut = <<"\\", ",", "\\", "\\", "\\", ";">>
    /\ Unescape(icsOut) = icsValue

-----------------------------------------------------------------------------
(* One call of stripHTML on a bounded text *)

MaxPieces == 3

\* the pieces a text is put together from: entities, the tail of an entity,
\* a tag, a letter, a lone ampersand
StripPieces ==
    { EntAmp, EntLt, EntNbsp, EntNum,
      <<"l", "t", ";">>, <<"<", "b", ">">>, <<"x">>, <<"&">> }

RECURSIVE Concat(_)
Concat(pieces) ==
    IF pieces = <<>> THEN <<>> ELSE Head(pieces) \o Concat(Tail(pieces))

InitStrip ==
    /\ icsName = <<>>
    /\ icsValue \in { Concat(q) :
                         q \in UNION { [1..n -> StripPieces] : n \in 0..MaxPieces } }
    /\ icsOut = <<>>
    /\ icsOutGoogle = <<>>
    /\ icsPhase = "in"

StripText ==
    /\ icsPhase = "in"
    /\ icsOut' = stripHTML(icsValue)
    /\ icsPhase' = "stripped"
    /\ UNCHANGED <<icsName, icsValue, icsOutGoogle, tagVars, genVars, convVars,
                   syncVars, apiVars>>

NextStrip == StripText

InitStripOnly == InitStrip /\ TagIdle /\ GenIdle /\ ConvIdle /\ SyncIdle /\ ApiIdle

SpecStrip == InitStripOnly /\ [][NextStrip]_vars

\* the named entities and the character each stands for
Entities ==
    { <<EntNbsp, " ">>, <<EntAmp, "&">>, <<EntLt, "<">>, <<EntGt, ">">>,
      <<EntQuot, "\"">>, <<EntNum, "'">>, <<EntApos, "'">> }

\* one pass from the left: an entity that starts here becomes its character
\* and the pass goes on after it
RECURSIVE DecodeOnce(_)
DecodeOnce(t) ==
    IF t = <<>> THEN <<>>
    ELSE LET here == { p \in Entities : HasPrefix(t, p[1]) }
         IN  IF here = {} THEN <<Head(t)>> \o DecodeOnce(Tail(t))
             ELSE LET p == CHOOSE q \in here : TRUE
                  IN  <<p[2]>> \o DecodeOnce(Tail2(t, Len(p[1])))

\* C25: stripHTML(s) is the text s without its tag-shaped parts in which
\* every occurrence of a named entity has been replaced by its character,
\* once: the character an entity decodes to is never read as the start of
\* another entity.
C25_DecodesOnce ==
    icsPhase = "stripped" => icsOut = DecodeOnce(StripTags(icsValue))

-----------------------------------------------------------------------------
(* One call of generateICS on a bounded input *)

\* an event with every field set; it starts on 1 June at 18:30 in London
EventPlain ==
    TextEvent(1,
        <<"T", "e", "m", "p", "o", " ", "R", "u", "n">>,
        17 * Hour + 30 * Minute,
        <<"A", "l">>,
        <<"P", "a", "r", "k">>,
        <<"E", "a", "s", "y">>,
        <<"h", "t", "t", "p", "s", ":", "/", "/", "w", "w", "w", ".", "s",
          "t", "r", "a", "v", "a", ".", "c", "o", "m", "/", "c", "l", "u",
          "b", "s", "/", "1", "2", "3", "4", "5", "/", "g", "r", "o", "u",
          "p", "_", "e", "v", "e", "n", "t", "s", "/", "1">>)

\* an event a week later with no organizer and no location
EventSparse ==
    TextEvent(2,
        <<"H", "i", "l", "l", "s", ",", " ", "h", "a", "r", "d">>,
        7 * Day + 17 * Hour + 30 * Minute,
        <<>>,
        <<>>,
        <<>>,
        <<"h", "t", "t", "p", "s", ":", "/", "/", "w", "w", "w", ".", "s",
          "t", "r", "a", "v", "a", ".", "c", "o", "m", "/", "c", "l", "u",
          "b", "s", "/", "1", "2", "3", "4", "5", "/", "g", "r", "o", "u",
          "p", "_", "e", "v", "e", "n", "t", "s", "/", "2">>)

\* an event whose title is longer than a folded line
EventLongTitle ==
    TextEvent(3,
        Fill(LongTitleLen),
        2 * Day + 9 * Hour,
        <<"B", "o">>,
        <<"H", "i", "l", "l", ";", " ", "t", "o", "p">>,
        <<"a", "<", "b", ">", "c", "<", "/", "b", ">">>,
        <<"h", "t", "t", "p", "s", ":", "/", "/", "w", "w", "w", ".", "s",
          "t", "r", "a", "v", "a", ".", "c", "o", "m", "/", "c", "l", "u",
          "b", "s", "/", "1", "2", "3", "4", "5", "/", "g", "r", "o", "u",
          "p", "_", "e", "v", "e", "n", "t", "s", "/", "3">>)

\* an event with line breaks in its title and its description
EventBreaks ==
    TextEvent(4,
        <<"A", "\n", "B">>,
        3 * Day,
        <<"C", "y", "\n", "D", "e", "e">>,
        <<"G", "a", "t", "e", "\r", "\n", "E", "a", "s", "t">>,
        <<"o", "n", "e", "\n", "t", "w", "o">>,
        <<"h", "t", "t", "p", "s", ":", "/", "/", "w", "w", "w", ".", "s",
          "t", "r", "a", "v", "a", ".", "c", "o", "m", "/", "c", "l", "u",
          "b", "s", "/", "1", "2", "3", "4", "5", "/", "g", "r", "o", "u",
          "p", "_", "e", "v", "e", "n", "t", "s", "/", "4">>)

EventPool == {EventPlain, EventSparse, EventLongTitle, EventBreaks}

\* nil, the empty slice, and the slices of up to MaxGenEvents events
GenSlices ==
    {Slice(TRUE, <<>>)}
    \cup { Slice(FALSE, items) :
             items \in UNION { [1..n -> EventPool] : n \in 0..MaxGenEvents } }

InitGen ==
    /\ genEvents \in GenSlices
    /\ genEnv \in [tz : BOOLEAN, club : BOOLEAN]
    /\ genTime \in {0, 12 * Hour + 5 * Minute}
    /\ genOut = NoDocument
    /\ genOutGoogle = NoDocument
    /\ genPhase = "in"

Generate ==
    /\ genPhase = "in"
    /\ genOut' = generateICS(genEvents, genTime, genEnv)
    /\ genOutGoogle' = generateICSGoogle(genEvents, genTime, genEnv)
    /\ genPhase' = "done"
    /\ UNCHANGED <<genEvents, genEnv, genTime, tagVars, icsVars, convVars, syncVars, apiVars>>

NextGen == Generate

InitGenOnly == InitGen /\ TagIdle /\ IcsIdle /\ ConvIdle /\ SyncIdle /\ ApiIdle

SpecGen == InitGenOnly /\ [][NextGen]_vars

\* the content lines of a document: the texts between consecutive CRLFs
ContentLines(doc) == Split(doc, CRLF)

\* the positions of the lines of a document that equal the text
LinesEqual(lines, text) == { k \in 1..Len(lines) : lines[k] = text }

\* the position of the i-th smallest member of a set of positions
Nth(S, i) == CHOOSE k \in S : Cardinality({ j \in S : j <= k }) = i

\* the document holds the preamble, one record per item in input order, each
\* with the item's UID, DTSTART and DTEND as its first lines, and the trailer
WellFormed(out, items) ==
    LET lines  == ContentLines(out.doc)
        begins == LinesEqual(lines, BeginVevent)
        ends   == LinesEqual(lines, EndVevent)
    IN  /\ out.ok
        /\ Len(out.doc) >= Len(Preamble) + Len(Trailer)
        /\ SubSeq(out.doc, 1, Len(Preamble)) = Preamble
        /\ SubSeq(out.doc, Len(out.doc) - Len(Trailer) + 1, Len(out.doc)) = Trailer
        /\ Cardinality(begins) = Len(items)
        /\ Cardinality(ends) = Len(items)
        /\ \A i \in 1..Len(items) :
             LET b == Nth(begins, i)
             IN  /\ b < Nth(ends, i)
                 /\ i < Len(items) => Nth(ends, i) < Nth(begins, i + 1)
                 /\ lines[b + 1] = UidName \o FormatUID(items[i].id)
                 /\ lines[b + 2] = DtstartName \o LocalStamp(items[i].start)
                 /\ lines[b + 3] = DtendName \o LocalStamp(items[i].end)

\* C13: for every input sequence generateICS returns the preamble, then one
\* BEGIN:VEVENT ... END:VEVENT record per event in input order, the i-th with
\* UID <id_i>@strava.com and the i-th event's DTSTART and DTEND on the London
\* clock, then the trailer.
C13_OneRecordPerEvent ==
    genPhase = "done" => WellFormed(genOut, genEvents.items)

\* every LF of the text follows a CR and every CR is followed by an LF
OnlyCRLF(doc) ==
    \A k \in 1..Len(doc) :
        /\ doc[k] = "\n" => (k > 1 /\ doc[k - 1] = "\r")
        /\ doc[k] = "\r" => (k < Len(doc) /\ doc[k + 1] = "\n")

\* the text starts with the prefix
StartsWith(doc, prefix) ==
    Len(doc) >= Len(prefix) /\ SubSeq(doc, 1, Len(prefix)) = prefix

\* the text ends with the suffix
EndsWith(doc, suffix) ==
    /\ Len(doc) >= Len(suffix)
    /\ SubSeq(doc, Len(doc) - Len(suffix) + 1, Len(doc)) = suffix

\* a returned document opens with BEGIN:VCALENDAR, closes with END:VCALENDAR
\* and a blank line, and breaks its lines with CRLF only
Framed(out) ==
    out.ok =>
        /\ StartsWith(out.doc, PreambleLines[1] \o CRLF)
        /\ EndsWith(out.doc, CRLF \o EndVcalendar \o CRLF \o CRLF)
        /\ OnlyCRLF(out.doc)

\* C14: the document generateICS returns begins with BEGIN:VCALENDAR, ends
\* with END:VCALENDAR and a trailing blank line, and every line terminator in
\* it is CRLF: no bare LF and no bare CR (both variants).
C14_CRLFThroughout ==
    genPhase = "done" => (Framed(genOut) /\ Framed(genOutGoogle))

\* C15: generateICS always returns a document, whatever the environment (tz
\* database, club id), and for nil and for the empty slice the document is the
\* preamble and the trailer with no event record (both variants).
C15_NeverFails ==
    genPhase = "done" =>
        /\ genOut.ok
        /\ genOutGoogle.ok
        /\ genEvents.items = <<>> =>
             /\ genOut.doc = Preamble \o Trailer
             /\ genOutGoogle.doc = Preamble \o Trailer

\* the text occurs in the document
Contains(doc, text) == Index(doc, text) # 0

\* the summary, the location and the link of the event are in the document
\* as formatICSProperty writes them
ThroughFormat(v, out, e) ==
    /\ Contains(out.doc, FormatBy(v, <<"S", "U", "M", "M", "A", "R", "Y">>, e.title))
    /\ e.location # <<>> =>
         Contains(out.doc, FormatBy(v, <<"L", "O", "C", "A", "T", "I", "O", "N">>,
                                    e.location))
    /\ Contains(out.doc, FormatBy(v, <<"U", "R", "L">>, e.url))
    /\ Contains(out.doc, FormatBy(v, PropDescription,
                   PlainDescription(e, ClubChars(genEnv), SyncTimeChars(genTime))))
    /\ Contains(out.doc, FormatBy(v, PropAltDesc,
                   HtmlDescription(e, ClubChars(genEnv), SyncTimeChars(genTime))))

\* C16: every text field of an event record (summary, description, rich-text
\* description, location, link) is in the returned document in the form
\* formatICSProperty gives it, escaped and folded (both variants).
C16_TextOnlyThroughFormat ==
    genPhase = "done" =>
        \A i \in 1..Len(genEvents.items) :
            /\ genOut.ok => ThroughFormat("rfc", genOut, genEvents.items[i])
            /\ genOutGoogle.ok =>
                 ThroughFormat("google", genOutGoogle, genEvents.items[i])

\* the positions of the X-ALT-DESC;FMTTYPE=text/html lines among the unfolded
\* content lines of a document
AltDescLines(lines) ==
    { k \in 1..Len(lines) : HasPrefix(lines[k], PropAltDesc \o <<":">>) }

\* the value of the i-th of them, un-escaped
AltDescValue(lines, i) ==
    Unescape(Tail2(lines[Nth(AltDescLines(lines), i)], Len(PropAltDesc) + 1))

ParagraphTag == <<"<", "p", ">">>
StrongTag == <<"<", "s", "t", "r", "o", "n", "g", ">">>
LinkTag(url) == <<"<", "a", " ", "h", "r", "e", "f", "=", "\"">> \o url \o <<"\"", ">">>

\* every event has its X-ALT-DESC line, whose value holds the paragraph, the
\* strong and the link tags built for the event
KeepsMarkup(out, items) ==
    LET lines == ContentLines(Unfold(out.doc))
    IN  out.ok =>
          /\ Cardinality(AltDescLines(lines)) = Len(items)
          /\ \A i \in 1..Len(items) :
                /\ Contains(AltDescValue(lines, i), ParagraphTag)
                /\ Contains(AltDescValue(lines, i), StrongTag)
                /\ Contains(AltDescValue(lines, i), LinkTag(items[i].url))

\* C26: for every event the X-ALT-DESC;FMTTYPE=text/html property of the
\* document carries the markup variant of the description: un-folded and
\* un-escaped, its value holds the paragraph, strong and link tags built
\* for the event (both variants).
C26_AltDescKeepsMarkup ==
    genPhase = "done" =>
        /\ KeepsMarkup(genOut, genEvents.items)
        /\ KeepsMarkup(genOutGoogle, genEvents.items)

-----------------------------------------------------------------------------
(* generateICS on events whose text fields hold line breaks and the texts
   BEGIN:VEVENT and END:VEVENT *)

\* the link holds a CRLF and BEGIN:VEVENT
EventLinkBreak ==
    TextEvent(5, <<"R", "u", "n">>, 3 * Day, <<"A", "l">>, <<>>, <<"E", "a", "s", "y">>,
              <<"u">> \o CRLF \o BeginVevent)

\* the description holds an LF and END:VEVENT
EventTextBreak ==
    TextEvent(6, <<"R", "u", "n">>, 3 * Day, <<"A", "l">>, <<>>,
              <<"x", "\n">> \o EndVevent, <<"u">>)

\* title, organizer and location are BEGIN:VEVENT, END:VEVENT and a text
\* with a CR
EventNamedBegin ==
    TextEvent(7, BeginVevent, 3 * Day, EndVevent, <<"a", "\r">> \o EndVevent,
              <<"E", "a", "s", "y">>, <<"u">>)

BreakPool == {EventLinkBreak, EventTextBreak, EventNamedBegin}

InitInject ==
    /\ genEvents \in
          { Slice(FALSE, items) :
              items \in UNION { [1..n -> BreakPool] : n \in 0..MaxGenEvents } }
    /\ genEnv \in [tz : BOOLEAN, club : BOOLEAN]
    /\ genTime \in {0, 12 * Hour + 5 * Minute}
    /\ genOut = NoDocument
    /\ genOutGoogle = NoDocument
    /\ genPhase = "in"

InitInjectOnly == InitInject /\ TagIdle /\ IcsIdle /\ ConvIdle /\ SyncIdle /\ ApiIdle

SpecInject == InitInjectOnly /\ [][NextGen]_vars

\* the document has one content line BEGIN:VEVENT and one content line
\* END:VEVENT per event
OneRecordEach(out, items) ==
    out.ok =>
        /\ Cardinality(LinesEqual(ContentLines(out.doc), BeginVevent)) = Len(items)
        /\ Cardinality(LinesEqual(ContentLines(out.doc), EndVevent)) = Len(items)

\* C28: whatever the text fields of the events hold - CR, LF, the texts
\* BEGIN:VEVENT and END:VEVENT - the document has exactly one content line
\* BEGIN:VEVENT and exactly one content line END:VEVENT per event (both
\* variants).
C28_FieldsOpenNoLine ==
    genPhase = "done" =>
        /\ OneRecordEach(genOut, genEvents.items)
        /\ OneRecordEach(genOutGoogle, genEvents.items)

-----------------------------------------------------------------------------
(* One call of makeAPIRequest *)

StatusOK == 200
StatusUnauthorized == 401

\* what client.Do gives: a transport error, or a response with a status
Reply(failed, status) == [failed |-> failed, status |-> status]

Replies ==
    {Reply(TRUE, 0)}
    \cup { Reply(FALSE, st) : st \in {StatusOK, StatusUnauthorized, 500} }

\* what the token endpoint does: the post fails, the status is not 200, the
\* body does not decode, or it issues a new pair of tokens
Issued(access, refresh) == [kind |-> "ok", access |-> access, refresh |-> refresh]

RefreshOutcomes ==
    { [kind |-> k, access |-> "", refresh |-> ""] : k \in {"post", "status", "decode"} }
    \cup { Issued(a, r) : a \in {"a2", "a3"}, r \in {"r2", "r3"} }

\* a refresh that stores the new refresh token and leaves the access token
refreshTokensKeepAccess(tokens, outcome) ==
    IF outcome.kind # "ok" THEN [ok |-> FALSE, tokens |-> tokens]
    ELSE [ok |-> TRUE, tokens |-> [tokens EXCEPT !.refresh = outcome.refresh]]

\* refreshTokens: an error leaves the TokenStore as it was; otherwise both
\* tokens are replaced by the issued ones
refreshTokens(tokens, outcome) ==
    IF outcome.kind # "ok" THEN [ok |-> FALSE, tokens |-> tokens]
    ELSE [ok |-> TRUE,
          tokens |-> [access |-> outcome.access, refresh |-> outcome.refresh]]

\* a refresh as it is posted: the refresh token of the payload and what the
\* token endpoint did
Posted(tokens, outcome) ==
    [token |-> tokens.refresh, kind |-> outcome.kind,
     access |-> outcome.access, refresh |-> outcome.refresh]

\* a request as it is sent: its Authorization bearer and the reply it gets
Sent(tokens, reply) == [auth |-> tokens.access, reply |-> reply]

Failure(err) == [err |-> err, status |-> 0]

Response(status) == [err |-> "none", status |-> status]

\* the TokenStore as loadTokens builds it (no access token yet) or as an
\* earlier call of the run left it
InitApi ==
    /\ apiTokens \in [access : {"", "a1"}, refresh : {"r0", "r1"}]
    /\ apiSent = <<>>
    /\ apiRefreshes = <<>>
    /\ apiResult = NoResult
    /\ apiPhase = "call"

\* the first client.Do(req)
SendFirst ==
    \E reply \in Replies :
        /\ apiPhase = "call"
        /\ apiSent' = Append(apiSent, Sent(apiTokens, reply))
        /\ IF reply.failed
           THEN apiResult' = Failure("request") /\ apiPhase' = "returned"
           ELSE IF reply.status = StatusUnauthorized
           THEN apiResult' = apiResult /\ apiPhase' = "unauthorized"
           ELSE apiResult' = Response(reply.status) /\ apiPhase' = "returned"
        /\ UNCHANGED <<apiTokens, apiRefreshes>>
        /\ UNCHANGED <<tagVars, icsVars, genVars, convVars, syncVars>>

\* refreshTokens(tokens) after a 401
Refresh ==
    \E outcome \in RefreshOutcomes :
        /\ apiPhase = "unauthorized"
        /\ apiRefreshes' = Append(apiRefreshes, Posted(apiTokens, outcome))
        /\ apiTokens' = refreshTokens(apiTokens, outcome).tokens
        /\ IF refreshTokens(apiTokens, outcome).ok
           THEN apiResult' = apiResult /\ apiPhase' = "refreshed"
           ELSE apiResult' = Failure("refresh") /\ apiPhase' = "returned"
        /\ UNCHANGED apiSent
        /\ UNCHANGED <<tagVars, icsVars, genVars, convVars, syncVars>>

\* the second client.Do(req), with the header set again
SendRetry ==
    \E reply \in Replies :
        /\ apiPhase = "refreshed"
        /\ apiSent' = Append(apiSent, Sent(apiTokens, reply))
        /\ apiResult' = IF reply.failed THEN Failure("retry")
                        ELSE Response(reply.status)
        /\ apiPhase' = "returned"
        /\ UNCHANGED <<apiTokens, apiRefreshes>>
        /\ UNCHANGED <<tagVars, icsVars, genVars, convVars, syncVars>>

NextApi == SendFirst \/ Refresh \/ SendRetry

InitApiOnly == InitApi /\ TagIdle /\ IcsIdle /\ GenIdle /\ ConvIdle /\ SyncIdle

SpecApi == InitApiOnly /\ [][NextApi]_vars

\* C29: a call of makeAPIRequest sends at most two requests and refreshes the
\* tokens at most once; a second request is sent only after a 401 and a
\* successful refresh, and carries the access token that refresh issued; a
\* failed refresh ends the call with an error and no second request; a 401
\* to the second request is returned to the caller without another refresh.
C29_OneRefreshOneRetry ==
    /\ Len(apiSent) =< 2
    /\ Len(apiRefreshes) =< 1
    /\ Len(apiSent) = 2 =>
          /\ apiSent[1].reply = Reply(FALSE, 401)
          /\ Len(apiRefreshes) = 1
          /\ apiRefreshes[1].kind = "ok"
          /\ apiSent[2].auth = apiRefreshes[1].access
    /\ (Len(apiRefreshes) = 1 /\ apiRefreshes[1].kind # "ok") =>
          /\ Len(apiSent) = 1
          /\ apiPhase = "returned"
          /\ apiResult.err = "refresh"
    /\ (Len(apiSent) = 2 /\ apiSent[2].reply = Reply(FALSE, 401)) =>
          /\ apiPhase = "returned"
          /\ apiResult = [err |-> "none", status |-> 401]

\* a call that was refused, refreshed, retried with the issued token and
\* refused again
C29_Witness ==
    /\ apiPhase = "returned"
    /\ Len(apiSent) = 2
    /\ apiSent[1].auth = ""
    /\ apiSent[2].auth = "a2"
    /\ apiSent[2].reply = Reply(FALSE, 401)
    /\ Len(apiRefreshes) = 1
    /\ apiResult.status = 401

-----------------------------------------------------------------------------
(* The correlation round trip: write the tag for an id, then scan it *)

TagIds == (0 - MaxAbsId)..MaxAbsId

InitTag ==
    /\ tagId \in TagIds
    /\ tagText = <<>>
    /\ tagParsed = NoParse
    /\ tagPhase = "in"

WriteTag ==
    /\ tagPhase = "in"
    /\ tagText' = FormatUID(tagId)
    /\ tagPhase' = "written"
    /\ UNCHANGED <<tagId, tagParsed, icsVars, genVars, convVars, syncVars, apiVars>>

ScanTag ==
    /\ tagPhase = "written"
    /\ tagParsed' = ParseStravaID(tagText)
    /\ tagPhase' = "done"
    /\ UNCHANGED <<tagId, tagText, icsVars, genVars, convVars, syncVars, apiVars>>

NextTag == WriteTag \/ ScanTag

InitTagOnly == InitTag /\ IcsIdle /\ GenIdle /\ ConvIdle /\ SyncIdle /\ ApiIdle

SpecTag == InitTagOnly /\ [][NextTag]_vars

\* C9 as stated: every id, 0 and negatives included, comes back from its own
\* tag as the same id and as a managed item.
C9_RoundTripAll ==
    tagPhase = "done" => (tagParsed.managed /\ tagParsed.id = tagId)

\* C9 as amended: every id other than 0 comes back from its own tag as the
\* same id and as a managed item; the tag of id 0 scans to 0 and is skipped.
C9_RoundTripNonZero ==
    tagPhase = "done" =>
        /\ tagParsed.id = tagId
        /\ tagParsed.managed <=> (tagId # 0)

C9_Witness ==
    tagPhase = "done" /\ tagId < 0 /\ tagParsed.managed /\ tagParsed.id = tagId

=============================================================================
